---- MODULE Spec2Model ----
(***************************************************************************)
(* A model of lsscsi (src/src/lsscsi.c): the address-tuple codec           *)
(* (parse_colon_list, tuple2string, cmp_hctl), the positional filter       *)
(* decoder (one_filter_arg, decode_filter_arg), the scandir select and     *)
(* sort callbacks, and main's listing pipeline (list_sdevices,             *)
(* list_ndevices, list_shosts, list_nhosts).                               *)
(*                                                                         *)
(* Text is a sequence of one-character strings.  A C int is a TLA+ integer *)
(* in -2^31 .. 2^31-1.  A uint64_t (and a uint32_t, zero-extended) is a    *)
(* 4-tuple of 16-bit words, most significant first, so that 64-bit values  *)
(* keep their width.                                                       *)
(***************************************************************************)
EXTENDS Integers, Sequences, FiniteSets, TLC

VARIABLES
    pc,             \* position of main(): see the actions below
    op,             \* struct lsscsi_opts, the fields main's control flow reads
    argv,           \* the positional (non-option) arguments, in order
    filter,         \* struct addr_hctl filter
    filter_active,  \* static bool filter_active
    sysfs,          \* the directories under sysfsroot, in enumeration order
    fopen_ok,       \* whether fopen(op->js_file, "w") will succeed
    namelist,       \* the selected, sorted names of the running top-level scan
    k,              \* loop index over namelist (0-based, as in the code)
    namelist2,      \* the selected, sorted names of the running namespace scan
    j,              \* loop index over namelist2
    out,            \* entries emitted so far (stdout lines / JSON objects)
    err,            \* messages written to stderr so far
    scans,          \* directories handed to scandir() so far
    res,            \* main's local res, its return value at pc = "exit"
    jsout,          \* where the JSON document went: "none", "stdout", "file"
    getcwd_ok,      \* whether getcwd(wd_at_start, ...) will succeed
    cwd,            \* the working directory of the process
    wd_at_start,    \* static char wd_at_start[]: "" until getcwd() fills it
    jsfile_dir,     \* the directory op->js_file was created in, or "none"
    json_tree,      \* the sgj_state tree: "none", "built" or "freed"
    codec,          \* the codec harness: input text, parse, render, re-parse
    cmp,            \* the comparator harness: three tuples and their results
    call            \* the function harnesses: one call, its arguments and result

vars == <<pc, op, argv, filter, filter_active, sysfs, fopen_ok, namelist, k,
          namelist2, j, out, err, scans, res, jsout, getcwd_ok, cwd,
          wd_at_start, jsfile_dir, json_tree, codec, cmp, call>>

-----------------------------------------------------------------------------
(* Program constants *)

NVME_HOST_NUM == 32767

\* 2^16, the base of the words a uint64_t is held in
W == 256 * 256

\* the largest int, 2^31 - 1
INT_MAX == (W * 32767) + (W - 1)

\* sizeof(buff) - 1 in one_filter_arg
FILTER_BUFF_MAX == 63

-----------------------------------------------------------------------------
(* 64-bit unsigned arithmetic on 16-bit words *)

U64Zero == <<0, 0, 0, 0>>

UINT64_LAST == <<65535, 65535, 65535, 65535>>

\* (uint64_t)n for a C int n >= 0
U64OfNat(n) == <<0, 0, n \div W, n % W>>

\* (uint64_t)x for any C int x: sign extension
U64OfInt(x) ==
    IF x >= 0 THEN U64OfNat(x)
    ELSE LET y == (x + INT_MAX) + 1      \* x + 2^31, in 0 .. 2^31-1
         IN  <<65535, 65535, (y \div W) + 32768, y % W>>

\* (uint32_t)v: the low 32 bits, zero-extended
U32Trunc(v) == <<0, 0, v[3], v[4]>>

\* (int)v: the low 32 bits read as two's complement
IntOfU64(v) ==
    IF v[3] >= 32768 THEN (v[3] - 65536) * W + v[4] ELSE v[3] * W + v[4]

U64Lt(a, b) ==
    \E i \in 1..4 : a[i] < b[i] /\ \A m \in 1..(i - 1) : a[m] = b[m]

\* v * m + d for small m, d: the 64-bit result and whether it overflowed
U64MulAdd(v, m, d) ==
    LET t4 == v[4] * m + d
        t3 == v[3] * m + (t4 \div W)
        t2 == v[2] * m + (t3 \div W)
        t1 == v[1] * m + (t2 \div W)
    IN  [v |-> <<t1 % W, t2 % W, t3 % W, t4 % W>>, ovf |-> (t1 \div W) > 0]

\* -v modulo 2^64
U64Neg(v) ==
    LET n == <<65535 - v[1], 65535 - v[2], 65535 - v[3], 65535 - v[4]>>
    IN  U64MulAdd(n, 1, 1).v

\* v / 10 and v % 10
U64DivMod10(v) ==
    LET c1 == v[1]
        c2 == (c1 % 10) * W + v[2]
        c3 == (c2 % 10) * W + v[3]
        c4 == (c3 % 10) * W + v[4]
    IN  [q |-> <<c1 \div 10, c2 \div 10, c3 \div 10, c4 \div 10>>,
         r |-> c4 % 10]

-----------------------------------------------------------------------------
(* Characters and the C library's conversions (sscanf, printf) *)

Digits == <<"0", "1", "2", "3", "4", "5", "6", "7", "8", "9">>

IsDigit(ch) == \E i \in 1..10 : Digits[i] = ch

DigitVal(ch) == (CHOOSE i \in 1..10 : Digits[i] = ch) - 1

HexLower == <<"a", "b", "c", "d", "e", "f">>

HexUpper == <<"A", "B", "C", "D", "E", "F">>

IsHexDigit(ch) ==
    IsDigit(ch) \/ \E i \in 1..6 : HexLower[i] = ch \/ HexUpper[i] = ch

HexVal(ch) ==
    IF IsDigit(ch) THEN DigitVal(ch)
    ELSE 9 + (CHOOSE i \in 1..6 : HexLower[i] = ch \/ HexUpper[i] = ch)

IsSpace(ch) == ch = " " \/ ch = "\t"

\* toupper() on the letters the program tests with it
ToUpper(ch) == IF ch = "n" THEN "N" ELSE IF ch = "x" THEN "X" ELSE ch

\* the text from position i (1-based) on: the C pointer s + (i - 1)
From(s, i) == SubSeq(s, i, Len(s))

\* strchr(s, ch): the 1-based position of the first ch, or 0 for NULL
StrChr(s, ch) ==
    IF \E i \in 1..Len(s) : s[i] = ch
    THEN CHOOSE i \in 1..Len(s) : s[i] = ch /\ \A m \in 1..(i - 1) : s[m] # ch
    ELSE 0

\* strrchr(s, ch): the 1-based position of the last ch, or 0 for NULL
StrRChr(s, ch) ==
    IF \E i \in 1..Len(s) : s[i] = ch
    THEN CHOOSE i \in 1..Len(s) :
             s[i] = ch /\ \A m \in (i + 1)..Len(s) : s[m] # ch
    ELSE 0

\* 0 == strncmp(s, p, Len(p)): s starts with p
HasPrefix(s, p) == Len(s) >= Len(p) /\ SubSeq(s, 1, Len(p)) = p

\* strstr(s, p) != NULL
Contains(s, p) ==
    \E i \in 1..(Len(s) - Len(p) + 1) : SubSeq(s, i, i + Len(p) - 1) = p

\* number of leading white-space characters, which every numeric
\* conversion of scanf skips
RECURSIVE SkipSpace(_)
SkipSpace(s) ==
    IF s # <<>> /\ IsSpace(Head(s)) THEN 1 + SkipSpace(Tail(s)) ELSE 0

\* number of leading decimal (or, with hex, hexadecimal) digits of s
RECURSIVE Span(_, _)
Span(s, hex) ==
    IF s # <<>> /\ (IF hex THEN IsHexDigit(Head(s)) ELSE IsDigit(Head(s)))
    THEN 1 + Span(Tail(s), hex)
    ELSE 0

\* one digit more: acc * base + d, remembering an overflow
AccumStep(acc, base, d) ==
    LET nx == U64MulAdd(acc.v, base, d)
    IN  [v |-> nx.v, ovf |-> acc.ovf \/ nx.ovf]

\* the value of the first n digits of ds in the given base, with ovf set
\* when it does not fit 64 bits (strtoul then saturates)
RECURSIVE Accum(_, _, _)
Accum(ds, base, n) ==
    IF n = 0 THEN [v |-> U64Zero, ovf |-> FALSE]
    ELSE CHOOSE r \in
             {AccumStep(acc, base,
                        IF base = 16 THEN HexVal(ds[n]) ELSE DigitVal(ds[n])) :
                  acc \in {Accum(ds, base, n - 1)}} : TRUE

\* the digits of a conversion: c is the text after white space, sign and
\* prefix, nd its number of leading digits, n0 the characters before c
ScanDigits(c, hex, nd, neg, n0) ==
    [ok  |-> nd > 0,
     neg |-> neg,
     mag |-> Accum(c, IF hex THEN 16 ELSE 10, nd),
     n   |-> n0 + nd]

\* the optional 0x of a hexadecimal conversion, then the digits
ScanPrefix(b, hex, neg, n0) ==
    IF hex /\ Len(b) >= 3 /\ b[1] = "0" /\ ToUpper(b[2]) = "X"
           /\ IsHexDigit(b[3])
    THEN ScanDigits(From(b, 3), hex, Span(From(b, 3), hex), neg, n0 + 2)
    ELSE ScanDigits(b, hex, Span(b, hex), neg, n0)

\* the optional sign, then the rest
ScanSign(a, hex, ws) ==
    IF a # <<>> /\ (a[1] = "-" \/ a[1] = "+")
    THEN ScanPrefix(Tail(a), hex, a[1] = "-", ws + 1)
    ELSE ScanPrefix(a, hex, FALSE, ws)

\* the shape scanf's integer conversions accept: white space, an optional
\* sign, for hex an optional 0x, and at least one digit.  ok: a number was
\* found; neg: it has a minus sign; mag: its magnitude; n: characters read
ScanNum(s, hex) == ScanSign(From(s, SkipSpace(s) + 1), hex, SkipSpace(s))

\* -x in 32-bit two's complement
Neg32(x) == IF x = (0 - INT_MAX) - 1 THEN x ELSE 0 - x

\* what "%d" stores for the number r: strtol saturates at LONG_MAX /
\* LONG_MIN and the low 32 bits are kept
Store_d(r) ==
    [ok  |-> r.ok,
     val |-> IF ~r.ok THEN 0
             ELSE IF r.mag.ovf \/ r.mag.v[1] >= 32768
                  THEN (IF r.neg THEN 0 ELSE 0 - 1)
             ELSE IF r.neg THEN Neg32(IntOfU64(r.mag.v))
             ELSE IntOfU64(r.mag.v),
     n   |-> r.n]

\* sscanf(s, "%d%n", &val, &n)
Scan_d(s) == Store_d(ScanNum(s, FALSE))

\* what "%" SCNu64 and "%" SCNx64 store for the number r: strtoul
\* saturates at ULONG_MAX and negates a value written with a minus sign
Store_u64(r) ==
    [ok  |-> r.ok,
     val |-> IF ~r.ok THEN U64Zero
             ELSE IF r.mag.ovf THEN UINT64_LAST
             ELSE IF r.neg THEN U64Neg(r.mag.v)
             ELSE r.mag.v,
     n   |-> r.n]

\* sscanf(s, "%" SCNu64, &val) and, with hex, "%" SCNx64
Scan_u64(s, hex) == Store_u64(ScanNum(s, hex))

\* what "%u" stores in a uint32_t: the low 32 bits of strtoul's result
Store_u32(r) == [ok |-> r.ok, val |-> U32Trunc(r.val), n |-> r.n]

\* sscanf(s, "%u", &val) into a uint32_t
Scan_u32(s) == Store_u32(Scan_u64(s, FALSE))

\* printf("%" PRIu64, v)
RECURSIVE Fmt_u64(_)
Fmt_u64(v) ==
    LET dm == U64DivMod10(v)
    IN  IF dm.q = U64Zero THEN <<Digits[dm.r + 1]>>
        ELSE Fmt_u64(dm.q) \o <<Digits[dm.r + 1]>>

\* printf("%d", x)
Fmt_d(x) ==
    IF x >= 0 THEN Fmt_u64(U64OfNat(x))
    ELSE IF x = (0 - INT_MAX) - 1
         THEN <<"-">> \o Fmt_u64(<<0, 0, 32768, 0>>)
         ELSE <<"-">> \o Fmt_u64(U64OfNat(0 - x))

-----------------------------------------------------------------------------
(* struct addr_hctl and the address-tuple codec *)

\* 8 bytes of 0xff
LunArrFF == [i \in 1..8 |-> 255]

\* invalidate_hctl(): -1 in the integers, all-ones in l, 0xff in the bytes
invalidate_hctl ==
    [h |-> 0 - 1, c |-> 0 - 1, t |-> 0 - 1, l |-> UINT64_LAST,
     lun_arr |-> LunArrFF]

\* a | b for two 16-bit words
RECURSIVE Or16(_, _)
Or16(a, b) ==
    IF a = 0 THEN b
    ELSE IF b = 0 THEN a
    ELSE (IF a % 2 = 1 \/ b % 2 = 1 THEN 1 ELSE 0)
         + (2 * Or16(a \div 2, b \div 2))

\* the loop of lun_word_flip() from pass kk on, rs being its res:
\* res |= (in & 0xffff), and unless kk > 2, res <<= 16 and in >>= 16
RECURSIVE FlipLoop(_, _, _)
FlipLoop(in, rs, kk) ==
    IF kk > 2
    THEN <<rs[1], rs[2], rs[3], Or16(rs[4], in[4])>>
    ELSE FlipLoop(<<0, in[1], in[2], in[3]>>,
                  <<rs[2], rs[3], Or16(rs[4], in[4]), 0>>, kk + 1)

\* a lun_word_flip() that swaps the two 32-bit halves
lun_word_flip_halves(in) == <<in[3], in[4], in[1], in[2]>>

\* lun_word_flip(in): the four 16-bit words of in, in reverse order
lun_word_flip(in) == FlipLoop(in, U64Zero, 0)

\* the loop at the end of parse_colon_list: z = l; for k = 0, 2, 4, 6:
\* sg_put_unaligned_be16((uint16_t)z, lun_arr + k), z >>= 16
LunArrOf(l) ==
    [i \in 1..8 |->
        LET w == l[4 - ((i - 1) \div 2)]
        IN  IF i % 2 = 1 THEN w \div 256 ELSE w % 256]

\* sscanf(s, "%*d%n", &k): an assignment-suppressed conversion is not
\* counted, so the call never returns 1
ScanSuppressedCount(s) == 0

\* the while loop of parse_colon_list's NVMe branch, on the text s left
\* after "nvme<minor>"; v is *outp so far
RECURSIVE NvmeTail(_, _)

\* one pass of that loop: r is the "%d%n" conversion of the text after the
\* letter s starts with
NvmeTailStep(s, v, r) ==
    IF s[1] = "c" THEN
        IF r.ok
        THEN NvmeTail(From(s, 2 + r.n),
                      [v EXCEPT !.t = IF r.val = INT_MAX
                                      THEN (0 - INT_MAX) - 1
                                      ELSE r.val + 1])
        ELSE v
    ELSE IF s[1] = "n" THEN
        IF r.ok
        THEN NvmeTail(From(s, 2 + r.n), [v EXCEPT !.l = U64OfInt(r.val)])
        ELSE v
    ELSE IF s[1] = "p" THEN
        IF 1 = ScanSuppressedCount(Tail(s))
        THEN NvmeTail(From(s, 2 + r.n), v)
        ELSE v
    ELSE v

NvmeTail(s, v) == IF s = <<>> THEN v ELSE NvmeTailStep(s, v, Scan_d(Tail(s)))

\* the NVMe branch of parse_colon_list: r is the "%d%n" conversion of the
\* text after the first four characters
NvmeName(colon_list, v1, r) ==
    IF HasPrefix(colon_list, <<"n", "v", "m", "e">>) /\ r.ok
    THEN [ok |-> TRUE,
          v  |-> NvmeTail(From(colon_list, 5 + r.n), [v1 EXCEPT !.c = r.val])]
    ELSE [ok |-> FALSE, v |-> v1]

\* *outp with its int field kk (0 = h, 1 = c, 2 = t) assigned
SetField(v, kk, val) ==
    IF kk = 0 THEN [v EXCEPT !.h = val]
    ELSE IF kk = 1 THEN [v EXCEPT !.c = val]
    ELSE [v EXCEPT !.t = val]

\* the h:c:t:l branch of parse_colon_list from field kk on: s is the text
\* left and v is *outp so far
RECURSIVE HctlFields(_, _, _)

\* the LUN: r is its "%" SCNu64 conversion
HctlLun(v, r) ==
    IF ~r.ok THEN [ok |-> FALSE, v |-> v]
    ELSE [ok |-> TRUE,
          v  |-> [v EXCEPT !.l = r.val, !.lun_arr = LunArrOf(r.val)]]

\* a HctlInt() that passes over a field without an integer
HctlInt_any_field(s, kk, v, r, e) ==
    IF e = 0 THEN [ok |-> FALSE, v |-> v]
    ELSE HctlFields(From(s, e + 1), kk + 1,
                    IF r.ok THEN SetField(v, kk, r.val) ELSE v)

\* h, c or t: r is the "%d" conversion of s and e the position of its ':'
HctlInt(s, kk, v, r, e) ==
    IF ~r.ok THEN [ok |-> FALSE, v |-> v]
    ELSE IF e = 0 THEN [ok |-> FALSE, v |-> SetField(v, kk, r.val)]
    ELSE HctlFields(From(s, e + 1), kk + 1, SetField(v, kk, r.val))

HctlFields(s, kk, v) ==
    IF kk = 3 THEN HctlLun(v, Scan_u64(s, FALSE))
    ELSE HctlInt(s, kk, v, Scan_d(s), StrChr(s, ":"))

\* parse_colon_list(colon_list, outp): prior is what *outp held before the
\* call; a field the call does not assign keeps that value.  Returns the
\* function's result (ok) and *outp afterwards (v).
parse_colon_list(colon_list, prior) ==
    IF colon_list # <<>> /\ ToUpper(colon_list[1]) = "N"
    THEN NvmeName(colon_list, [prior EXCEPT !.h = NVME_HOST_NUM],
                  Scan_d(From(colon_list, 5)))
    ELSE HctlFields(colon_list, 0, prior)

\* mk_nvme_tuple(): nsid little-endian in lun_arr[0..3], zeros after
mk_nvme_tuple(cdev_minor, cntlid, nsid) ==
    [h |-> NVME_HOST_NUM, c |-> cdev_minor, t |-> cntlid, l |-> nsid,
     lun_arr |-> [i \in 1..8 |->
                     IF i = 1 THEN nsid[4] % 256
                     ELSE IF i = 2 THEN nsid[4] \div 256
                     ELSE IF i = 3 THEN nsid[3] % 256
                     ELSE IF i = 4 THEN nsid[3] \div 256
                     ELSE 0]]

\* a cmp_hctl() that forgets the target: equal h and c go straight to l
cmp_hctl_no_t(le, ri) ==
    IF le.h = ri.h THEN
        IF le.c = ri.c THEN
            (IF le.l = ri.l THEN 0
             ELSE IF U64Lt(le.l, ri.l) THEN 0 - 1 ELSE 1)
        ELSE (IF le.c < ri.c THEN 0 - 1 ELSE 1)
    ELSE (IF le.h < ri.h THEN 0 - 1 ELSE 1)

\* a cmp_hctl() whose host test is the wrong way round
cmp_hctl_h_reversed(le, ri) ==
    IF le.h = ri.h THEN
        IF le.c = ri.c THEN
            IF le.t = ri.t THEN
                (IF le.l = ri.l THEN 0
                 ELSE IF U64Lt(le.l, ri.l) THEN 0 - 1 ELSE 1)
            ELSE (IF le.t < ri.t THEN 0 - 1 ELSE 1)
        ELSE (IF le.c < ri.c THEN 0 - 1 ELSE 1)
    ELSE (IF le.h > ri.h THEN 0 - 1 ELSE 1)

\* cmp_hctl(le, ri)
cmp_hctl(le, ri) ==
    IF le.h = ri.h THEN
        IF le.c = ri.c THEN
            IF le.t = ri.t THEN
                (IF le.l = ri.l THEN 0
                 ELSE IF U64Lt(le.l, ri.l) THEN 0 - 1 ELSE 1)
            ELSE (IF le.t < ri.t THEN 0 - 1 ELSE 1)
        ELSE (IF le.c < ri.c THEN 0 - 1 ELSE 1)
    ELSE (IF le.h < ri.h THEN 0 - 1 ELSE 1)

\* a tag_lun_helper() that never tags a separator
tag_lun_helper_no_separator(tag_arr, kk, num) ==
    [i \in DOMAIN tag_arr |->
        IF i >= 2 * kk /\ i < (2 * kk) + num THEN 1 ELSE tag_arr[i]]

\* tag_lun_helper(tag_arr, kk, num); tag_arr is indexed from 0 as in C
RECURSIVE tag_lun_helper(_, _, _)
tag_lun_helper(tag_arr, kk, num) ==
    IF num = 0 THEN tag_arr
    ELSE [tag_lun_helper(tag_arr, kk, num - 1)
             EXCEPT ![(2 * kk) + (num - 1)] =
                 IF kk > 0 /\ num - 1 = 0 THEN 2 ELSE 1]

\* one pass of tag_lun's for loop at level k over the 8 bytes lunp
\* (1-based here); recursion is the loop's continuation
RECURSIVE TagLevel(_, _, _)
TagLevel(lunp, lev, tag_arr) ==
    IF lev >= 4 THEN tag_arr
    ELSE
        LET b0         == lunp[2 * lev + 1]
            a_method   == (b0 \div 64) % 4
            bus_id     == b0 % 64
            len_fld    == (b0 % 64) \div 16
            e_a_method == b0 % 16
            next_level == a_method = 0 /\ bus_id # 0
            tagged ==
                IF a_method < 3 THEN tag_lun_helper(tag_arr, lev, 2)
                ELSE IF len_fld = 0 /\ e_a_method = 1
                     THEN tag_lun_helper(tag_arr, lev, 2)
                ELSE IF len_fld = 1 /\ e_a_method = 2
                     THEN tag_lun_helper(tag_arr, lev, 4)
                ELSE IF len_fld = 2 /\ e_a_method = 2
                     THEN tag_lun_helper(tag_arr, lev, 6)
                ELSE IF len_fld = 3 /\ e_a_method = 15
                     THEN [tag_arr EXCEPT ![2 * lev] = IF lev > 0 THEN 2 ELSE 1]
                ELSE IF len_fld < 2
                     THEN tag_lun_helper(tag_arr, lev, 4)
                ELSE IF len_fld = 3
                     THEN [tag_lun_helper(tag_arr, lev, 6)
                              EXCEPT ![(2 * lev) + 6] = 1, ![(2 * lev) + 7] = 1]
                ELSE tag_lun_helper(tag_arr, lev, 6)
        IN  IF next_level THEN TagLevel(lunp, lev + 1, tagged) ELSE tagged

\* tag_lun(lunp, tag_arr) for the caller's int tag_arr[16]; entries 0..7 are
\* zeroed first, entries 8..15 are never read by the caller
tag_lun(lunp) ==
    LET zero == [i \in 0..15 |-> 0]
    IN  IF lunp[1] = 255 /\ lunp[2] = 255
        THEN [zero EXCEPT ![0] = 1, ![1] = 1]
        ELSE TagLevel(lunp, 0, zero)

\* printf("%02x", byte) and wider zero-padded lower-case hex
HexChar(d) == IF d < 10 THEN Digits[d + 1] ELSE HexLower[d - 9]

Hex2(b) == <<HexChar(b \div 16), HexChar(b % 16)>>

Hex4(w) == Hex2(w \div 256) \o Hex2(w % 256)

\* the "%s%02x" loop of tuple2string over the tagged bytes
RECURSIVE LunHexTagged(_, _, _)
LunHexTagged(lun_arr, tag_arr, kk) ==
    IF kk >= 8 \/ tag_arr[kk] <= 0 THEN <<>>
    ELSE (IF tag_arr[kk] > 1 THEN <<"_">> ELSE <<>>)
         \o Hex2(lun_arr[kk + 1]) \o LunHexTagged(lun_arr, tag_arr, kk + 1)

\* printf("%04" PRIx32, v): at least 4 hex digits of a 32-bit value
Fmt_04x32(v) == IF v[3] = 0 THEN Hex4(v[4])
                ELSE LET hi == Hex4(v[3])
                         nz == CHOOSE i \in 1..4 :
                                  hi[i] # "0" /\ \A m \in 1..(i - 1) : hi[m] = "0"
                     IN  From(hi, nz) \o Hex4(v[4])

\* what sg_scn3pr() leaves of a text written to a buffer of blen bytes
Truncated(text, blen) ==
    SubSeq(text, 1, IF Len(text) < blen THEN Len(text) ELSE blen - 1)

\* the host, channel and target part of tuple2string()'s text
HctText(tp, selh, selc, selt) ==
    (IF ~selh THEN <<>>
     ELSE IF tp.h = NVME_HOST_NUM THEN <<"N">>
     ELSE Fmt_d(tp.h))
    \o (IF ~selc THEN <<>>
        ELSE (IF selh THEN <<":">> ELSE <<>>) \o Fmt_d(tp.c))
    \o (IF ~selt THEN <<>>
        ELSE (IF selh \/ selc THEN <<":">> ELSE <<>>) \o Fmt_d(tp.t))

\* the LUN part of tuple2string()'s text, after its separator
LunText(tp, lunhex) ==
    IF tp.h # NVME_HOST_NUM THEN
        (IF lunhex = 1
         THEN <<"0", "x">> \o LunHexTagged(tp.lun_arr, tag_lun(tp.lun_arr), 0)
         ELSE IF lunhex > 1
         THEN <<"0", "x">> \o Hex4(lun_word_flip(tp.l)[1])
              \o Hex4(lun_word_flip(tp.l)[2]) \o Hex4(lun_word_flip(tp.l)[3])
              \o Hex4(lun_word_flip(tp.l)[4])
         ELSE IF tp.l = UINT64_LAST THEN <<"-", "1">>
         ELSE Fmt_u64(tp.l))
    ELSE
        (IF lunhex = 1 THEN <<"0", "x">> \o Fmt_04x32(U32Trunc(tp.l))
         ELSE IF lunhex > 1
         THEN <<"0", "x">> \o Hex4(tp.l[3]) \o Hex4(tp.l[4])
         ELSE IF tp.l = <<0, 0, 65535, 65535>> THEN <<"-", "1">>
         ELSE Fmt_u64(U32Trunc(tp.l)))

\* the body of tuple2string() once sel_mask is decoded: selh, selc, selt,
\* sell are bits 3, 2, 1, 0 and lunhex is bits 4+5.  The text left in b,
\* which sg_scn3pr() never lets grow past blen - 1 characters.
TupleText(tp, selh, selc, selt, sell, lunhex, blen) ==
    Truncated(HctText(tp, selh, selc, selt)
              \o (IF ~sell THEN <<>>
                  ELSE (IF selh \/ selc \/ selt THEN <<":">> ELSE <<>>)
                       \o LunText(tp, lunhex)),
              blen)

\* a tuple2string() that tests bit 2 where it should test bit 1, so the
\* target is printed only when the channel is
tuple2string_wrong_bit(tp, sel_mask, blen) ==
    TupleText(tp, (sel_mask \div 8) % 2 = 1, (sel_mask \div 4) % 2 = 1,
              (sel_mask \div 4) % 2 = 0, sel_mask % 2 = 1,
              (sel_mask \div 16) % 4, blen)

\* tuple2string(tp, sel_mask, blen, b)
tuple2string(tp, sel_mask, blen) ==
    TupleText(tp, (sel_mask \div 8) % 2 = 1, (sel_mask \div 4) % 2 = 1,
              (sel_mask \div 2) % 2 = 1, sel_mask % 2 = 1,
              (sel_mask \div 16) % 4, blen)

-----------------------------------------------------------------------------
(* The state of main() before it starts; the harnesses below leave it so *)

\* struct lsscsi_opts after memset(op, 0, sizeof(opts)); json_ok is what
\* sgj_init_state() will return for op->json_arg, and js_file is "none"
\* (NULL), "-" or "file" (any other name)
NoOpts ==
    [do_hosts |-> FALSE, no_nvme |-> FALSE, classic |-> FALSE,
     verbose |-> 0, version_count |-> 0, transport_info |-> FALSE,
     unit |-> 0, long_opt |-> 0, do_json |-> FALSE, json_ok |-> TRUE,
     js_file |-> "none"]

\* the directory the process is started in, and a directory under
\* sysfsroot that the entry functions change to
StartDir == "start"

SysfsDir == "sysfs"

\* a directory scandir() cannot open
NoDir == [ok |-> FALSE, ents |-> <<>>]

\* a sysfs tree without the SCSI and NVMe directories
NoSysfs == [scsi_devices |-> NoDir, scsi_host |-> NoDir, nvme |-> NoDir]

\* main() not started: the state the codec and comparator harnesses keep
MainIdle ==
    /\ pc = "idle"
    /\ op = NoOpts
    /\ argv = <<>>
    /\ filter = invalidate_hctl
    /\ filter_active = FALSE
    /\ sysfs = NoSysfs
    /\ fopen_ok = TRUE
    /\ namelist = <<>>
    /\ k = 0
    /\ namelist2 = <<>>
    /\ j = 0
    /\ out = <<>>
    /\ err = <<>>
    /\ scans = <<>>
    /\ res = 0
    /\ jsout = "none"
    /\ getcwd_ok = TRUE
    /\ cwd = StartDir
    /\ wd_at_start = ""
    /\ jsfile_dir = "none"
    /\ json_tree = "none"

mainvars == <<pc, op, argv, filter, filter_active, sysfs, fopen_ok, namelist,
              k, namelist2, j, out, err, scans, res, jsout, getcwd_ok, cwd,
              wd_at_start, jsfile_dir, json_tree>>

-----------------------------------------------------------------------------
(* Filter arguments *)

\* the wildcards decode_filter_arg() resets *filtp to
NoFilter == [invalidate_hctl EXCEPT !.h = 0 - 1, !.c = 0 - 1, !.t = 0 - 1,
                                    !.l = UINT64_LAST]

\* number of leading ' ', '\t' and '[' characters one_filter_arg() skips
RECURSIVE FilterLead(_)
FilterLead(s) ==
    IF s # <<>> /\ Head(s) \in {" ", "\t", "["}
    THEN 1 + FilterLead(Tail(s)) ELSE 0

\* the for loop of one_filter_arg() from field index kk on, cp the text
\* left and f the filter so far; msg names the pr2serr() of a failure
RECURSIVE FilterFields(_, _, _)

\* the switch that ends a pass of the loop: val or val64 goes to field kk
\* and the loop goes on with the text after the colon
FilterStore(rest, kk, f, val, val64) ==
    IF kk = 0 THEN FilterFields(rest, 1, [f EXCEPT !.h = val])
    ELSE IF kk = 1 THEN FilterFields(rest, 2, [f EXCEPT !.c = val])
    ELSE IF kk = 2 THEN FilterFields(rest, 3, [f EXCEPT !.t = val])
    ELSE IF kk = 3 THEN FilterFields(rest, 4, [f EXCEPT !.l = val64])
    ELSE [ok |-> FALSE, f |-> f, msg |-> "three_colons"]

\* a field buff that is neither empty nor a wildcard: r64 and rd are its
\* "%" SCNu64 (or SCNx64) and "%d" conversions
FilterDecode(buff, rest, kk, f, r64, rd) ==
    IF kk = 3 /\ r64.ok
    THEN FilterStore(rest, kk, f, 0 - 1, r64.val)
    ELSE IF kk # 3 /\ rd.ok
    THEN FilterStore(rest, kk, f, rd.val, UINT64_LAST)
    ELSE IF kk = 0 /\ Len(buff) = 1 /\ ToUpper(buff[1]) = "N"
    THEN FilterStore(rest, kk, f, NVME_HOST_NUM, UINT64_LAST)
    ELSE IF StrChr(buff, "]") = 0
    THEN [ok |-> FALSE, f |-> f, msg |-> "cannot_decode"]
    ELSE FilterStore(rest, kk, f, 0 - 1, UINT64_LAST)

\* one pass of the loop: buff is the field at the head of cp and rest the
\* text after its colon
FilterField(buff, rest, kk, f) ==
    IF Len(buff) > FILTER_BUFF_MAX
    THEN [ok |-> FALSE, f |-> f, msg |-> "too_long"]
    ELSE IF buff # <<>> /\ buff[1] \notin {"-", "*", "?"}
    THEN FilterDecode(buff, rest, kk, f,
                      Scan_u64(buff, Len(buff) >= 2 /\ buff[1] = "0"
                                         /\ ToUpper(buff[2]) = "X"),
                      Scan_d(buff))
    ELSE FilterStore(rest, kk, f, 0 - 1, UINT64_LAST)

\* the strchr(cp, ':') at the head of a pass: cpe is its result
FilterSplit(cp, kk, f, cpe) ==
    IF cpe > 0
    THEN FilterField(SubSeq(cp, 1, cpe - 1), From(cp, cpe + 1), kk, f)
    ELSE FilterField(cp, <<>>, kk, f)

FilterFields(cp, kk, f) ==
    IF cp = <<>> THEN [ok |-> TRUE, f |-> f, msg |-> "none"]
    ELSE FilterSplit(cp, kk, f, StrChr(cp, ":"))

\* a one_filter_arg() that decodes what it can and never reports failure
one_filter_arg_never_fails(arg, filtp) ==
    [FilterFields(From(arg, FilterLead(arg) + 1), 0, filtp)
        EXCEPT !.ok = TRUE, !.msg = "none"]

\* one_filter_arg(arg, filtp)
one_filter_arg(arg, filtp) ==
    FilterFields(From(arg, FilterLead(arg) + 1), 0, filtp)

\* sizeof(b1) in decode_filter_arg()
B1_SIZE == 256

\* my_strcopy(dest, src, dest_maxlen): what dest holds afterwards, at most
\* dest_maxlen - 1 characters of src
my_strcopy(src, dest_maxlen) ==
    IF Len(src) >= dest_maxlen THEN SubSeq(src, 1, dest_maxlen - 1) ELSE src

\* the branch of decode_filter_arg() that joins the arguments with colons
\* in b1: the arguments from the i-th on are still to be copied behind
\* what b1 holds, and rem is the room left.  (With 251 characters of
\* arguments my_strcopy() is given no room and b1 stays unterminated; the
\* runs here have shorter arguments.)
RECURSIVE JoinArgs(_, _, _, _)
JoinArgs(a, i, b1, rem) ==
    IF i > Len(a) THEN one_filter_arg(b1, NoFilter)
    ELSE IF Len(a[i]) > rem
    THEN [ok |-> FALSE, f |-> NoFilter, msg |-> "exceed_buffer"]
    ELSE JoinArgs(a, i + 1,
                  b1 \o (IF i > 1 THEN <<":">> ELSE <<>>)
                     \o my_strcopy(a[i], rem),
                  rem - (Len(a[i]) + 1))

\* decode_filter_arg() once sscanf(a1p, "host%d", &n) has given rh
DecodeArgs(a, rh) ==
    IF HasPrefix(a[1], <<"h", "o", "s", "t">>) /\ rh.ok /\ rh.val >= 0
    THEN [ok |-> TRUE, f |-> [NoFilter EXCEPT !.h = rh.val], msg |-> "none"]
    ELSE IF Len(a) < 2 \/ StrChr(a[1], ":") > 0
    THEN one_filter_arg(a[1], NoFilter)
    ELSE JoinArgs(a, 1, <<>>, B1_SIZE - 5)

\* decode_filter_arg(a1p, a2p, a3p, a4p, filtp): a holds the one to four
\* argument texts that are not NULL
decode_filter_arg(a) == DecodeArgs(a, Scan_d(From(a[1], 5)))

-----------------------------------------------------------------------------
(* scandir() and its select and sort callbacks *)

\* the elements of a sequence
Range(s) == {s[i] : i \in 1..Len(s)}

NvmeText == <<"n", "v", "m", "e">>

HostText == <<"h", "o", "s", "t">>

\* the filter test of sdev_dir_scan_select(): s_hctl is what
\* parse_colon_list() made of the name
sdev_filter_test(s_hctl) ==
    IF ~s_hctl.ok THEN 0
    ELSE IF /\ (filter.h = 0 - 1 \/ s_hctl.v.h = filter.h)
            /\ (filter.c = 0 - 1 \/ s_hctl.v.c = filter.c)
            /\ (filter.t = 0 - 1 \/ s_hctl.v.t = filter.t)
            /\ (filter.l = UINT64_LAST \/ s_hctl.v.l = filter.l)
    THEN 1 ELSE 0

\* a sdev_dir_scan_select() that leaves the LUN out of the match
sdev_dir_scan_select_any_lun(d_name, stack) ==
    IF Contains(d_name, <<"m", "t">>) THEN 0
    ELSE IF Contains(d_name, <<"o", "t">>) THEN 0
    ELSE IF Contains(d_name, <<"g", "e", "n">>) THEN 0
    ELSE IF HasPrefix(d_name, HostText) THEN 0
    ELSE IF HasPrefix(d_name, <<"t", "a", "r", "g", "e", "t">>) THEN 0
    ELSE IF StrChr(d_name, ":") > 0 THEN
        IF filter_active
        THEN sdev_filter_test([parse_colon_list(d_name, stack)
                                  EXCEPT !.v.l = filter.l])
        ELSE 1
    ELSE 0

\* sdev_dir_scan_select(s): stack is what the local s_hctl holds before
\* parse_colon_list() writes to it
sdev_dir_scan_select(d_name, stack) ==
    IF Contains(d_name, <<"m", "t">>) THEN 0
    ELSE IF Contains(d_name, <<"o", "t">>) THEN 0
    ELSE IF Contains(d_name, <<"g", "e", "n">>) THEN 0
    ELSE IF HasPrefix(d_name, HostText) THEN 0
    ELSE IF HasPrefix(d_name, <<"t", "a", "r", "g", "e", "t">>) THEN 0
    ELSE IF StrChr(d_name, ":") > 0 THEN
        IF filter_active
        THEN sdev_filter_test(parse_colon_list(d_name, stack))
        ELSE 1
    ELSE 0

\* ndev_dir_scan_select(s)
ndev_dir_scan_select(d_name) ==
    LET cdev_minor == Scan_d(From(d_name, 5))
    IN  IF HasPrefix(d_name, NvmeText) /\ cdev_minor.ok THEN
            IF filter_active THEN
                IF /\ (filter.h = 0 - 1 \/ filter.h = NVME_HOST_NUM)
                   /\ (filter.c = 0 - 1 \/ cdev_minor.val = filter.c)
                THEN 1 ELSE 0
            ELSE 1
        ELSE 0

\* a ndev_dir_scan_select2() that leaves the namespace id out of the match
ndev_dir_scan_select2_any_nsid(d_name) ==
    LET rest       == From(d_name, 5)
        cp         == StrChr(rest, "n")
        cdev_minor == Scan_d(rest)
        nsid       == Scan_u32(From(rest, cp + 1))
    IN  IF ~HasPrefix(d_name, NvmeText) THEN 0
        ELSE IF cp = 0 THEN 0
        ELSE IF cdev_minor.ok /\ nsid.ok THEN
            IF filter_active THEN
                IF /\ (filter.h = 0 - 1 \/ filter.h = NVME_HOST_NUM)
                   /\ (filter.c = 0 - 1 \/ cdev_minor.val = filter.c)
                THEN 1 ELSE 0
            ELSE 1
        ELSE 0

\* ndev_dir_scan_select2(s)
ndev_dir_scan_select2(d_name) ==
    LET rest       == From(d_name, 5)
        cp         == StrChr(rest, "n")
        cdev_minor == Scan_d(rest)
        nsid       == Scan_u32(From(rest, cp + 1))
    IN  IF ~HasPrefix(d_name, NvmeText) THEN 0
        ELSE IF cp = 0 THEN 0
        ELSE IF cdev_minor.ok /\ nsid.ok THEN
            IF filter_active THEN
                IF /\ (filter.h = 0 - 1 \/ filter.h = NVME_HOST_NUM)
                   /\ (filter.c = 0 - 1 \/ cdev_minor.val = filter.c)
                   /\ (filter.l = UINT64_LAST \/ nsid.val = filter.l)
                THEN 1 ELSE 0
            ELSE 1
        ELSE 0

\* shost_dir_scan_select(s)
shost_dir_scan_select(d_name) ==
    LET h == Scan_d(From(d_name, 5))
    IN  IF HasPrefix(d_name, HostText) THEN
            IF filter_active THEN
                IF filter.h = 0 - 1 THEN 1
                ELSE IF h.ok /\ h.val = filter.h THEN 1
                ELSE 0
            ELSE 1
        ELSE 0

\* the end of the sort callbacks: both names gave a tuple
HctlOrder(left_hctl, right_hctl, right_failed) ==
    IF ~left_hctl.ok THEN 0 - 1
    ELSE IF ~right_hctl.ok THEN right_failed
    ELSE cmp_hctl(left_hctl.v, right_hctl.v)

\* a sdev_scandir_sort() that compares the host numbers only
sdev_scandir_sort_host_only(lnam, rnam, stackl, stackr) ==
    HctlOrder([parse_colon_list(lnam, stackl)
                  EXCEPT !.v.c = 0, !.v.t = 0, !.v.l = U64Zero],
              [parse_colon_list(rnam, stackr)
                  EXCEPT !.v.c = 0, !.v.t = 0, !.v.l = U64Zero], 1)

\* sdev_scandir_sort(a, b): stackl and stackr are what the locals left_hctl
\* and right_hctl hold before parse_colon_list() writes to them
sdev_scandir_sort(lnam, rnam, stackl, stackr) ==
    HctlOrder(parse_colon_list(lnam, stackl), parse_colon_list(rnam, stackr),
              1)

\* "nvme%d" read into the c of a tuple: r is the conversion
NvmeHostTuple(nam, stack, r) ==
    IF HasPrefix(nam, NvmeText) /\ r.ok
    THEN [ok |-> TRUE,
          v  |-> [stack EXCEPT !.h = NVME_HOST_NUM, !.c = r.val,
                               !.t = 0, !.l = U64Zero]]
    ELSE [ok |-> FALSE, v |-> stack]

\* one side of nhost_scandir_sort(): the tuple a name stands for
NhostTuple(nam, stack) ==
    IF StrChr(nam, ":") > 0 THEN parse_colon_list(nam, stack)
    ELSE NvmeHostTuple(nam, stack, Scan_d(From(nam, 5)))

\* nhost_scandir_sort(a, b): a right name that fails gives 1 when it has
\* a colon and -1 when it has none
nhost_scandir_sort(lnam, rnam, stackl, stackr) ==
    HctlOrder(NhostTuple(lnam, stackl), NhostTuple(rnam, stackr),
              IF StrChr(rnam, ":") > 0 THEN 1 ELSE 0 - 1)

\* shost_scandir_sort(a, b)
shost_scandir_sort(lnam, rnam) ==
    LET l == Scan_u32(From(lnam, 5))
        r == Scan_u32(From(rnam, 5))
    IN  IF ~(HasPrefix(lnam, HostText) /\ l.ok) THEN 0 - 1
        ELSE IF ~(HasPrefix(rnam, HostText) /\ r.ok) THEN 1
        ELSE IF U64Lt(l.val, r.val) THEN 0 - 1
        ELSE IF U64Lt(r.val, l.val) THEN 1
        ELSE 0

\* the merge step of qsort(): the left element goes first unless the
\* comparison is positive
RECURSIVE Merge(_, _, _)
Merge(b1, b2, compar) ==
    IF b1 = <<>> THEN b2
    ELSE IF b2 = <<>> THEN b1
    ELSE IF compar[<<b1[1], b2[1]>>] <= 0
    THEN <<b1[1]>> \o Merge(Tail(b1), b2, compar)
    ELSE <<b2[1]>> \o Merge(b1, Tail(b2), compar)

\* qsort() as scandir() calls it: a merge sort over halves; compar is the
\* table of the comparison callback's results
RECURSIVE qsort(_, _)
qsort(b, compar) ==
    IF Len(b) <= 1 THEN b
    ELSE LET n1 == Len(b) \div 2
         IN  Merge(qsort(SubSeq(b, 1, n1), compar),
                   qsort(SubSeq(b, n1 + 1, Len(b)), compar), compar)

\* scandir(dir, &namelist, select, compar): selected is the set of names
\* the select callback accepts; num is the return value
scandir(dir, selected, compar) ==
    IF ~dir.ok THEN [num |-> 0 - 1, namelist |-> <<>>]
    ELSE LET kept == qsort(SelectSeq(dir.ents, LAMBDA d : d \in selected),
                           compar)
         IN  [num |-> Len(kept), namelist |-> kept]

-----------------------------------------------------------------------------
(* main() and the listing functions *)

\* sizeof(devname) in one_ndev_entry(), the buffer its tuple is rendered in
DEVNAME_SIZE == 64

\* what the stack may hold where a callback's local struct addr_hctl lives:
\* every int field x and the LUN x, for a small x
StackMax == 1

StackTuples ==
    {[invalidate_hctl EXCEPT !.h = x, !.c = x, !.t = x, !.l = U64OfNat(x)] :
        x \in 0..StackMax}

\* jsp->pr_as_json once sgj_init_state() has succeeded
as_json == op.do_json

\* a test for the NVMe listings that forgets --classic
nvme_wanted_despite_classic == ~op.no_nvme

\* the test main() puts before list_nhosts() and list_ndevices()
nvme_wanted == ~op.no_nvme /\ ~op.classic

\* a line on stdout, or the object added to a JSON array
Entry(kind, name, loc) == [kind |-> kind, name |-> name, loc |-> loc]

\* sgj_pr_hr(): a line on stdout unless the output is JSON
HrLine(kind) == IF as_json THEN <<>> ELSE <<Entry(kind, <<>>, <<>>)>>

\* the sysfs record of the controller a name in /sys/class/nvme stands for
Controller(name) == CHOOSE c \in Range(sysfs.nvme.ents) : c.name = name

\* the names in /sys/class/nvme, in enumeration order
ClassNvme ==
    [ok |-> sysfs.nvme.ok,
     ents |-> [i \in 1..Len(sysfs.nvme.ents) |-> sysfs.nvme.ents[i].name]]

\* one_sdev_entry(dir_name, devname, op, jop): the location is "[devname]"
one_sdev_entry(devname) == Entry("sdev", devname, devname)

\* one_shost_entry(dir_name, devname, op, jop)
one_shost_entry(devname) ==
    LET host_id == Scan_u32(From(devname, 5))
    IN  IF op.classic THEN HrLine("classic_unsupported")
        ELSE IF HasPrefix(devname, HostText) /\ host_id.ok
        THEN <<Entry("shost", devname, Fmt_u64(host_id.val))>>
        ELSE <<Entry("shost", devname, <<"?">>)>>

\* one_nhost_entry(dir_name, nvme_ctl_rel, op, jop)
one_nhost_entry(nvme_ctl_rel) ==
    LET cdev_minor == Scan_u32(From(nvme_ctl_rel, 5))
    IN  IF HasPrefix(nvme_ctl_rel, NvmeText) /\ cdev_minor.ok
        THEN Entry("nhost", nvme_ctl_rel,
                   <<"N", ":">> \o Fmt_u64(cdev_minor.val))
        ELSE Entry("nhost", nvme_ctl_rel, <<"N", ":", "?">>)

\* one_ndev_entry() once its three sscanf() calls have given rm (the
\* minor in the name), rc (the cntlid attribute) and rn (the nsid after
\* the last 'n' of the name, at position cp)
NdevEntry(nvme_ctl, nvme_ns_rel, rm, rc, cp, rn) ==
    LET vb         == op.verbose > 0
        okm        == HasPrefix(nvme_ns_rel, NvmeText) /\ rm.ok
        cdev_minor == IF okm THEN rm.val ELSE 0
        file       == nvme_ctl.cntlid
        cntlid     == IF file.ok /\ rc.ok THEN rc.val ELSE 0
        okn        == /\ cp > 0
                      /\ ~(cp < Len(nvme_ns_rel) /\ nvme_ns_rel[cp + 1] = "v")
                      /\ rn.ok
        nsid       == IF okn THEN rn.val ELSE U64Zero
        skip       == /\ file.ok
                      /\ filter_active /\ filter.t # 0 - 1
                      /\ cntlid # filter.t
        m1         == IF ~okm /\ vb THEN <<"one_ndev_entry: cdev_minor">>
                      ELSE <<>>
        m2         == IF file.ok /\ ~rc.ok /\ vb
                      THEN <<"one_ndev_entry: decode cntlid">>
                      ELSE IF ~file.ok /\ vb
                      THEN <<"one_ndev_entry: cntlid">>
                      ELSE <<>>
        m3         == IF ~skip /\ ~okn /\ vb THEN <<"one_ndev_entry: nsid">>
                      ELSE <<>>
    IN  [listed |-> ~skip,
         entry  |-> Entry("ndev", nvme_ns_rel,
                          tuple2string(mk_nvme_tuple(cdev_minor, cntlid, nsid),
                                       15, DEVNAME_SIZE)),
         msgs   |-> m1 \o m2 \o m3]

\* the nsid conversion of one_ndev_entry(): cp is strrchr(nvme_ns_rel, 'n')
NdevNsid(nvme_ctl, nvme_ns_rel, rm, rc, cp) ==
    NdevEntry(nvme_ctl, nvme_ns_rel, rm, rc, cp,
              Scan_u32(From(nvme_ns_rel, cp + 1)))

\* one_ndev_entry(nvme_ctl_abs, nvme_ns_rel, op, jop): whether the
\* namespace is listed, the line, and the messages for stderr
one_ndev_entry(nvme_ctl, nvme_ns_rel) ==
    NdevNsid(nvme_ctl, nvme_ns_rel, Scan_d(From(nvme_ns_rel, 5)),
             Scan_d(nvme_ctl.cntlid.value), StrRChr(nvme_ns_rel, "n"))

\* where one_sdev_entry() leaves the process: it changes to the device's
\* directory for its "dir:" line when op->verbose > 0, and before that it
\* may change to the directory of the device's block or generic node
one_sdev_entry_wd ==
    IF ~op.classic /\ op.verbose > 0 THEN {SysfsDir} ELSE {cwd, SysfsDir}

\* where one_ndev_entry() leaves the process: in the namespace's directory
\* when it gets to its "dir:" line
one_ndev_entry_wd(listed) ==
    IF listed /\ op.verbose > 0 THEN {SysfsDir} ELSE {cwd}

\* where one_shost_entry() leaves the process: it may change to the
\* host's driver directory, and to its device directory if there is one
one_shost_entry_wd == IF op.classic THEN {cwd} ELSE {cwd, SysfsDir}

\* where one_nhost_entry() leaves the process: in the controller's device
\* directory, if there is one, when op->verbose > 0
one_nhost_entry_wd == IF op.verbose > 0 THEN {cwd, SysfsDir} ELSE {cwd}

\* a main() that lists NVMe namespaces only after some output
after_sdevices_needs_entries ==
    IF nvme_wanted /\ out # <<>> THEN "list_ndevices" ELSE "finish"

\* where main() goes once list_sdevices() has returned
after_sdevices == IF nvme_wanted THEN "list_ndevices" ELSE "finish"

\* where main() goes once list_shosts() has returned
after_shosts == IF nvme_wanted THEN "list_nhosts" ELSE "finish"

\* main() returns status with the lines in msgs on stderr
Return(status, msgs) ==
    /\ pc' = "exit"
    /\ res' = status
    /\ err' = err \o msgs
    /\ UNCHANGED <<namelist, k, namelist2, j, scans, jsout>>

\* main() from the end of option parsing to the first listing call:
\* --version, the JSON argument, the filter arguments, the option checks
main ==
    /\ pc = "main"
    /\ LET a1p      == argv[1]
           args     == IF HasPrefix(a1p, HostText)
                          \/ HasPrefix(a1p, <<"H", "O", "S", "T">>)
                       THEN <<From(a1p, 5)>> \o Tail(argv)
                       ELSE argv
           long12   == op.long_opt = 1 \/ op.long_opt = 2
           ignored  == IF op.unit > 0 /\ op.do_hosts
                       THEN <<"--unit ignored when --hosts given">>
                       ELSE <<>>
           getcwd   == op.do_json /\ op.js_file # "none"
           failed   == IF getcwd /\ ~getcwd_ok THEN <<"getcwd() failed">>
                       ELSE <<>>
       IN  \E d \in {IF argv = <<>>
                       THEN [ok |-> TRUE, f |-> filter, msg |-> "none"]
                       ELSE decode_filter_arg(args)} :
           IF op.version_count = 1
           THEN /\ Return(0, <<"pre-release">>)
                /\ UNCHANGED <<out, filter, filter_active>>
           ELSE IF op.version_count > 1
           THEN /\ Return(0, <<>>)
                /\ out' = Append(out, Entry("version", <<>>, <<>>))
                /\ UNCHANGED <<filter, filter_active>>
           ELSE IF op.do_json /\ ~op.json_ok
           THEN /\ Return(1, <<"bad argument to --json">>)
                /\ UNCHANGED <<out, filter, filter_active>>
           ELSE IF Len(argv) > 4
           THEN /\ Return(1, failed \o <<"unexpected non-option arguments">>)
                /\ UNCHANGED <<out, filter, filter_active>>
           ELSE IF Len(argv) > 0 /\ ~d.ok
           THEN /\ Return(1, failed \o <<d.msg>>)
                /\ filter' = d.f
                /\ UNCHANGED <<out, filter_active>>
           ELSE
               /\ filter' = IF Len(argv) > 0 THEN d.f ELSE filter
               /\ filter_active' =
                      (filter_active \/
                          (filter'.h # 0 - 1 \/ filter'.c # 0 - 1
                              \/ filter'.t # 0 - 1
                              \/ filter'.l # UINT64_LAST))
               /\ IF op.transport_info /\ op.unit > 0
                  THEN /\ Return(1, failed
                                     \o <<"use '--transport' or '--unit'">>)
                       /\ UNCHANGED out
                  ELSE IF op.transport_info /\ long12
                  THEN /\ Return(1, failed \o <<"please use '--list'">>)
                       /\ UNCHANGED out
                  ELSE IF op.unit > 0 /\ long12
                  THEN /\ Return(1, failed \o ignored
                                     \o <<"please use '--list'">>)
                       /\ UNCHANGED out
                  ELSE /\ pc' = IF op.do_hosts THEN "list_shosts"
                                ELSE "list_sdevices"
                       /\ err' = err \o failed \o ignored
                       /\ out' = IF op.verbose > 1
                                 THEN Append(out, Entry("sysfsroot", <<>>, <<>>))
                                 ELSE out
                       /\ UNCHANGED <<namelist, k, namelist2, j, scans, res,
                                      jsout>>
    /\ wd_at_start' = IF /\ op.version_count = 0
                          /\ op.do_json /\ op.json_ok /\ op.js_file # "none"
                          /\ getcwd_ok
                       THEN cwd ELSE wd_at_start
    /\ json_tree' = IF pc' # "exit" /\ op.do_json THEN "built" ELSE json_tree
    /\ UNCHANGED <<op, argv, sysfs, fopen_ok, getcwd_ok, cwd, jsfile_dir,
                   codec, cmp, call>>

\* list_sdevices() up to its loop: the scandir() and what follows a failure
list_sdevices ==
    /\ pc = "list_sdevices"
    /\ \E stackl \in StackTuples, stackr \in StackTuples :
         LET dir      == sysfs.scsi_devices
             selected == {d \in Range(dir.ents) :
                             sdev_dir_scan_select(d, stackl) = 1}
             compar   == [p \in selected \X selected |->
                             sdev_scandir_sort(p[1], p[2], stackl, stackr)]
         IN  \E r \in {scandir(dir, selected, compar)} :
             /\ scans' = Append(scans, "bus/scsi/devices")
             /\ IF r.num < 0
                THEN /\ err' = IF op.verbose > 1
                               THEN Append(err, "list_sdevices: scandir")
                               ELSE err
                     /\ out' = out
                               \o (IF op.verbose > 1
                                   THEN HrLine("SCSI mid level") ELSE <<>>)
                               \o (IF op.classic
                                   THEN HrLine("Attached devices") ELSE <<>>)
                     /\ pc' = after_sdevices
                     /\ UNCHANGED <<namelist, k>>
                ELSE /\ out' = out \o (IF op.classic
                                       THEN HrLine("Attached devices")
                                       ELSE <<>>)
                     /\ namelist' = r.namelist
                     /\ k' = 0
                     /\ pc' = IF r.num = 0 THEN after_sdevices
                              ELSE "one_sdev_entry"
                     /\ UNCHANGED err
    /\ UNCHANGED <<op, argv, filter, filter_active, sysfs, fopen_ok,
                   namelist2, j, res, jsout, getcwd_ok, cwd,
                   wd_at_start, jsfile_dir, json_tree, codec, cmp, call>>

\* one pass of list_sdevices()'s loop: one_sdev_entry() on namelist[k]
list_sdevices_entry ==
    /\ pc = "one_sdev_entry"
    /\ out' = Append(out, one_sdev_entry(namelist[k + 1]))
    /\ cwd' \in one_sdev_entry_wd
    /\ k' = k + 1
    /\ pc' = IF k + 1 < Len(namelist) THEN "one_sdev_entry"
             ELSE after_sdevices
    /\ UNCHANGED <<op, argv, filter, filter_active, sysfs, fopen_ok,
                   namelist, namelist2, j, err, scans, res, jsout,
                   getcwd_ok, wd_at_start, jsfile_dir, json_tree, codec,
                   cmp, call>>

\* the scandir() of /sys/class/nvme that list_ndevices() and list_nhosts()
\* both make
ScanClassNvme(stackl, stackr) ==
    LET selected == {d \in Range(ClassNvme.ents) :
                        ndev_dir_scan_select(d) = 1}
        compar   == [p \in selected \X selected |->
                        nhost_scandir_sort(p[1], p[2], stackl, stackr)]
    IN  scandir(ClassNvme, selected, compar)

\* list_ndevices() up to its loop over the controllers
list_ndevices ==
    /\ pc = "list_ndevices"
    /\ \E stackl \in StackTuples, stackr \in StackTuples :
         \E r \in {ScanClassNvme(stackl, stackr)} :
             /\ scans' = Append(scans, "class/nvme")
             /\ IF r.num < 0
                THEN /\ err' = IF op.verbose > 1
                               THEN Append(err, "list_ndevices: scandir")
                               ELSE err
                     /\ out' = out \o (IF op.verbose > 1
                                       THEN HrLine("NVMe") ELSE <<>>)
                     /\ pc' = "finish"
                     /\ UNCHANGED <<namelist, k>>
                ELSE /\ namelist' = r.namelist
                     /\ k' = 0
                     /\ pc' = IF r.num = 0 THEN "finish" ELSE "ndev_controller"
                     /\ UNCHANGED <<out, err>>
    /\ UNCHANGED <<op, argv, filter, filter_active, sysfs, fopen_ok,
                   namelist2, j, res, jsout, getcwd_ok, cwd,
                   wd_at_start, jsfile_dir, json_tree, codec, cmp, call>>

\* the head of one pass of list_ndevices()'s outer loop: the scandir() of
\* the directory of controller namelist[k]
list_ndevices_controller ==
    /\ pc = "ndev_controller"
    /\ \E stackl \in StackTuples, stackr \in StackTuples :
         LET dir      == Controller(namelist[k + 1]).dir
             selected == {d \in Range(dir.ents) :
                             ndev_dir_scan_select2(d) = 1}
             compar   == [p \in selected \X selected |->
                             sdev_scandir_sort(p[1], p[2], stackl, stackr)]
         IN  \E r \in {scandir(dir, selected, compar)} :
             /\ scans' = Append(scans, "class/nvme/<controller>")
             /\ IF r.num < 0
                THEN /\ err' = IF op.verbose > 0
                               THEN Append(err, "list_ndevices: scandir(2)")
                               ELSE err
                     /\ pc' = "finish"
                     /\ k' = k + 1
                     /\ UNCHANGED <<namelist2, j>>
                ELSE /\ namelist2' = r.namelist
                     /\ j' = 0
                     /\ k' = IF r.num = 0 THEN k + 1 ELSE k
                     /\ pc' = IF r.num > 0 THEN "one_ndev_entry"
                              ELSE IF k + 1 < Len(namelist)
                              THEN "ndev_controller"
                              ELSE "finish"
                     /\ UNCHANGED err
    /\ UNCHANGED <<op, argv, filter, filter_active, sysfs, fopen_ok,
                   namelist, out, res, jsout, getcwd_ok, cwd,
                   wd_at_start, jsfile_dir, json_tree, codec, cmp, call>>

\* one pass of list_ndevices()'s inner loop: one_ndev_entry() on
\* namelist2[j]; in JSON output the object is added to the array even
\* when one_ndev_entry() returned early and left it empty
list_ndevices_entry ==
    /\ pc = "one_ndev_entry"
    /\ \E e \in {one_ndev_entry(Controller(namelist[k + 1]),
                                 namelist2[j + 1])} :
           /\ out' = IF e.listed THEN Append(out, e.entry)
                     ELSE IF as_json
                     THEN Append(out, Entry("empty", <<>>, <<>>))
                     ELSE out
           /\ err' = err \o e.msgs
           /\ cwd' \in one_ndev_entry_wd(e.listed)
    /\ j' = j + 1
    /\ k' = IF j + 1 < Len(namelist2) THEN k ELSE k + 1
    /\ pc' = IF j + 1 < Len(namelist2) THEN "one_ndev_entry"
             ELSE IF k + 1 < Len(namelist) THEN "ndev_controller"
             ELSE "finish"
    /\ UNCHANGED <<op, argv, filter, filter_active, sysfs, fopen_ok,
                   namelist, namelist2, scans, res, jsout, getcwd_ok,
                   wd_at_start, jsfile_dir, json_tree, codec, cmp, call>>

\* list_shosts() up to its loop
list_shosts ==
    /\ pc = "list_shosts"
    /\ LET dir      == sysfs.scsi_host
           selected == {d \in Range(dir.ents) : shost_dir_scan_select(d) = 1}
           compar   == [p \in selected \X selected |->
                           shost_scandir_sort(p[1], p[2])]
       IN  \E r \in {scandir(dir, selected, compar)} :
           /\ scans' = Append(scans, "class/scsi_host")
           /\ IF r.num < 0
              THEN /\ err' = Append(err, "list_shosts: scandir")
                   /\ pc' = after_shosts
                   /\ UNCHANGED <<out, namelist, k>>
              ELSE /\ out' = out \o (IF op.classic
                                     THEN HrLine("Attached hosts") ELSE <<>>)
                   /\ namelist' = r.namelist
                   /\ k' = 0
                   /\ pc' = IF r.num = 0 THEN after_shosts
                            ELSE "one_shost_entry"
                   /\ UNCHANGED err
    /\ UNCHANGED <<op, argv, filter, filter_active, sysfs, fopen_ok,
                   namelist2, j, res, jsout, getcwd_ok, cwd,
                   wd_at_start, jsfile_dir, json_tree, codec, cmp, call>>

\* one pass of list_shosts()'s loop: one_shost_entry() on namelist[k]
list_shosts_entry ==
    /\ pc = "one_shost_entry"
    /\ out' = out \o one_shost_entry(namelist[k + 1])
    /\ cwd' \in one_shost_entry_wd
    /\ k' = k + 1
    /\ pc' = IF k + 1 < Len(namelist) THEN "one_shost_entry"
             ELSE after_shosts
    /\ UNCHANGED <<op, argv, filter, filter_active, sysfs, fopen_ok,
                   namelist, namelist2, j, err, scans, res, jsout,
                   getcwd_ok, wd_at_start, jsfile_dir, json_tree, codec,
                   cmp, call>>

\* list_nhosts() up to its loop
list_nhosts ==
    /\ pc = "list_nhosts"
    /\ \E stackl \in StackTuples, stackr \in StackTuples :
         \E r \in {ScanClassNvme(stackl, stackr)} :
             /\ scans' = Append(scans, "class/nvme")
             /\ IF r.num < 0
                THEN /\ err' = IF op.verbose > 1
                               THEN Append(err, "list_nhosts: scandir")
                               ELSE err
                     /\ out' = out \o (IF op.verbose > 1
                                       THEN HrLine("NVMe") ELSE <<>>)
                     /\ pc' = "finish"
                     /\ UNCHANGED <<namelist, k>>
                ELSE /\ namelist' = r.namelist
                     /\ k' = 0
                     /\ pc' = IF r.num = 0 THEN "finish" ELSE "one_nhost_entry"
                     /\ UNCHANGED <<out, err>>
    /\ UNCHANGED <<op, argv, filter, filter_active, sysfs, fopen_ok,
                   namelist2, j, res, jsout, getcwd_ok, cwd,
                   wd_at_start, jsfile_dir, json_tree, codec, cmp, call>>

\* one pass of list_nhosts()'s loop: one_nhost_entry() on namelist[k]
list_nhosts_entry ==
    /\ pc = "one_nhost_entry"
    /\ out' = Append(out, one_nhost_entry(namelist[k + 1]))
    /\ cwd' \in one_nhost_entry_wd
    /\ k' = k + 1
    /\ pc' = IF k + 1 < Len(namelist) THEN "one_nhost_entry" ELSE "finish"
    /\ UNCHANGED <<op, argv, filter, filter_active, sysfs, fopen_ok,
                   namelist, namelist2, j, err, scans, res, jsout,
                   getcwd_ok, wd_at_start, jsfile_dir, json_tree, codec,
                   cmp, call>>

\* the working directory after main()'s chdir(wd_at_start), which fails
\* on the empty path that a failed getcwd() left there
chdir_wd_at_start == IF wd_at_start = "" THEN cwd ELSE wd_at_start

\* a main() whose status forgets a failed fopen()
open_status_kept == res

\* res once main() has tried to open op->js_file
open_status == IF fopen_ok THEN res ELSE 1

\* main() after the listing calls: the JSON document goes to stdout or to
\* op->js_file, opened after chdir(wd_at_start); sgj_finish() frees the
\* tree and main() returns res
main_finish ==
    /\ pc = "finish"
    /\ IF op.do_json /\ op.js_file = "file"
       THEN /\ cwd' = chdir_wd_at_start
            /\ err' = err
                       \o (IF wd_at_start = ""
                           THEN <<"failed to cd to wd_at_start">> ELSE <<>>)
                       \o (IF fopen_ok THEN <<>>
                           ELSE <<"unable to open file">>)
            /\ res' = open_status
            /\ jsout' = IF fopen_ok THEN "file" ELSE "none"
            /\ jsfile_dir' = IF fopen_ok THEN cwd' ELSE jsfile_dir
       ELSE /\ jsout' = IF op.do_json THEN "stdout" ELSE "none"
            /\ UNCHANGED <<err, res, cwd, jsfile_dir>>
    /\ json_tree' = IF op.do_json THEN "freed" ELSE json_tree
    /\ pc' = "exit"
    /\ UNCHANGED <<op, argv, filter, filter_active, sysfs, fopen_ok,
                   namelist, k, namelist2, j, out, scans, getcwd_ok,
                   wd_at_start, codec, cmp, call>>

-----------------------------------------------------------------------------
(* The runs of main(): options, filter arguments and sysfs trees *)

\* most entries of a directory whose every enumeration order is tried
MaxEntries == 3

\* most namespaces of a controller whose every enumeration order is tried
MaxNs == 2

Colon == <<":">>

\* the kernel's name of a SCSI device, "h:c:t:l"
HctlName(h, c, t, l) ==
    Fmt_d(h) \o Colon \o Fmt_d(c) \o Colon \o Fmt_d(t) \o Colon \o Fmt_d(l)

TargetName == <<"t", "a", "r", "g", "e", "t", "0", ":", "0", ":", "0">>

\* the kernel's names of a SCSI host, an NVMe controller and a namespace
HostName(h) == HostText \o Fmt_d(h)

CtlName(m) == NvmeText \o Fmt_d(m)

NsName(m, n) == CtlName(m) \o <<"n">> \o Fmt_d(n)

\* the sequences of at most n different elements of S
Arrangements(S, n) ==
    {s \in UNION {[1..m -> S] : m \in 0..n} :
        \A p \in 1..Len(s), q \in 1..Len(s) : p # q => s[p] # s[q]}

Dir(ents) == [ok |-> TRUE, ents |-> ents]

\* entries of /sys/bus/scsi/devices: devices that differ in one field each,
\* with host numbers whose numeric and text orders differ, and a target
SNames == {HctlName(0, 0, 0, 1), HctlName(0, 0, 1, 0), HctlName(2, 0, 0, 0),
           HctlName(10, 0, 0, 0), TargetName}

SDirs == {NoDir} \cup {Dir(e) : e \in Arrangements(SNames, MaxEntries)}

SDirsFew == {NoDir, Dir(<<>>), Dir(<<HctlName(2, 0, 0, 0),
                                     HctlName(0, 0, 0, 1)>>)}

HDirs == {NoDir} \cup
         {Dir(e) : e \in Arrangements({HostName(0), HostName(2), HostName(10)},
                                      MaxNs)}

\* a controller /sys/class/nvme/nvme<m>: its cntlid attribute (a file that
\* may be missing) and its directory
Ctl(m, cntlid, dir) == [name |-> CtlName(m), cntlid |-> cntlid, dir |-> dir]

NoFile == [ok |-> FALSE, value |-> <<>>]

File(value) == [ok |-> TRUE, value |-> value]

CntlidName == <<"c", "n", "t", "l", "i", "d">>

\* directories of controller nvme0: the namespaces in every order, after
\* the entry of the cntlid attribute
Subs0 ==
    {NoDir} \cup
    {Dir(<<CntlidName>> \o e) :
        e \in Arrangements({NsName(0, 1), NsName(0, 2), NsName(0, 10)}, MaxNs)}

Subs0Few == {NoDir, Dir(<<NsName(0, 1)>>), Dir(<<NsName(0, 2), NsName(0, 1)>>)}

Subs1 == {NoDir, Dir(<<NsName(1, 1)>>)}

\* nvme0 has cntlid 3 and nvme1 has cntlid 4
NDirs ==
    {NoDir, Dir(<<>>)}
    \cup {Dir(<<Ctl(0, f, d)>>) : f \in {NoFile, File(Fmt_d(3))}, d \in Subs0}
    \cup {Dir(<<Ctl(0, File(Fmt_d(3)), d0), Ctl(1, File(Fmt_d(4)), d1)>>) :
             d0 \in Subs0Few, d1 \in Subs1}
    \cup {Dir(<<Ctl(1, File(Fmt_d(4)), d1), Ctl(0, File(Fmt_d(3)), d0)>>) :
             d0 \in Subs0Few, d1 \in Subs1}

NDirsFew == {NoDir, Dir(<<>>),
             Dir(<<Ctl(0, File(Fmt_d(3)),
                       Dir(<<NsName(0, 2), NsName(0, 1)>>))>>)}

\* the sysfs trees whose directories come in every enumeration order
Trees ==
    {[scsi_devices |-> s, scsi_host |-> h, nvme |-> n] :
        s \in SDirs, h \in {Dir(<<HostName(0)>>)}, n \in NDirsFew}
    \cup {[scsi_devices |-> s, scsi_host |-> h, nvme |-> n] :
        s \in SDirsFew, h \in {Dir(<<HostName(0)>>)}, n \in NDirs}
    \cup {[scsi_devices |-> s, scsi_host |-> h, nvme |-> n] :
        s \in {Dir(<<>>)}, h \in HDirs, n \in NDirsFew}

\* a tree with two hosts, four devices and a target, two controllers, and
\* three namespaces, for the runs with filter arguments
FullTree(f) ==
    [scsi_devices |-> Dir(<<HctlName(10, 0, 0, 0), TargetName,
                            HctlName(2, 0, 0, 0), HctlName(0, 0, 1, 0),
                            HctlName(0, 0, 0, 1)>>),
     scsi_host    |-> Dir(<<HostName(10), HostName(2), HostName(0)>>),
     nvme         |-> Dir(<<Ctl(1, File(Fmt_d(4)), Dir(<<NsName(1, 1)>>)),
                            Ctl(0, f, Dir(<<CntlidName, NsName(0, 2),
                                            NsName(0, 1)>>))>>)]

\* small trees for the runs that vary the options
SmallTrees ==
    {[scsi_devices |-> s[1], scsi_host |-> s[2], nvme |-> n] :
        s \in {<<NoDir, NoDir>>,
               <<Dir(<<HctlName(0, 0, 0, 1)>>), Dir(<<HostName(0)>>)>>},
        n \in {NoDir, Dir(<<Ctl(0, File(Fmt_d(3)), Dir(<<NsName(0, 1)>>))>>)}}

\* filter arguments main() accepts: one text, or up to four to be joined
GoodFilters ==
    {<<<<"0", ":", "0", ":", "0", ":", "1">>>>,
     <<<<"2">>>>,
     <<<<"1", "0", ":", "0">>>>,
     <<<<"-", ":", "-", ":", "1">>>>,
     <<<<"*", ":", "*", ":", "?", ":", "1">>>>,
     <<<<"[", "2", ":", "0", ":", "0", ":", "0", "]">>>>,
     <<<<"N">>>>,
     <<<<"N", ":", "0">>>>,
     <<<<"n", ":", "-", ":", "3">>>>,
     <<<<"N", ":", "-", ":", "-", ":", "2">>>>,
     <<<<"N", ":", "1", ":", "4", ":", "1">>>>,
     <<<<"3", "2", "7", "6", "7">>>>,
     <<<<"3", "2", "7", "6", "7", ":", "0", ":", "3">>>>,
     <<<<"h", "o", "s", "t", "2">>>>,
     <<<<"H", "O", "S", "T", "1", "0">>>>,
     <<<<"-", ":", "-", ":", "-", ":", "-">>>>,
     <<<<>>>>,
     <<<<"0", ":", "0", ":", "0", ":", "0", "x", "1">>>>,
     <<<<" ", "2">>>>,
     <<<<"1", ":", "2", ":", "3", ":", "4", ":">>>>,
     <<<<"5", "x">>>>,
     <<<<"x", "]">>>>,
     <<<<":", ":", ":">>>>,
     <<<<"2", ":", "-", ":", "-", ":", "-">>>>,
     <<<<"0", ":", "0", ":", "0">>>>,
     <<<<"0">>, <<"0">>, <<"0">>, <<"1">>>>,
     <<<<"2">>, <<"0">>>>,
     <<<<"0", ":", "0">>, <<"x">>>>,
     <<<<"N">>, <<"0">>>>,
     <<<<"h", "o", "s", "t", "2">>, <<"x">>>>,
     <<<<"-">>, <<"-">>, <<"1">>>>}

\* a field one character longer than one_filter_arg()'s buffer holds
LongField == [i \in 1..(FILTER_BUFF_MAX + 1) |-> "1"]

\* filter arguments main() rejects
BadFilters ==
    {<<<<"x">>>>,
     <<<<"0", ":", "x">>>>,
     <<<<"0", ":", "0", ":", "0", ":", "z">>>>,
     <<<<"1", ":", "2", ":", "3", ":", "4", ":", "5">>>>,
     <<<<"N", ":", "N">>>>,
     <<<<"N", "N">>>>,
     <<<<"0", ":", "0", ":", "N">>>>,
     <<<<"1", ":", "2", ":", "3", ":", "4", ":", "x">>>>,
     <<<<"0">>, <<"x">>>>,
     <<<<"1">>, <<"2">>, <<"3">>, <<"4">>, <<"5">>>>,
     <<<<"x">>, <<"0">>>>,
     <<<<"0">>, <<"0">>, <<"0">>, <<"z">>>>,
     <<LongField>>, <<<<"0", ":">> \o LongField>>}

FilterArgs == GoodFilters \cup BadFilters

\* options that choose what is listed
ListOpts ==
    {[NoOpts EXCEPT !.do_hosts = h, !.no_nvme = n, !.classic = c] :
        h \in BOOLEAN, n \in BOOLEAN, c \in BOOLEAN}

\* ListOpts with each verbosity and each way of asking for JSON
OutputOpts ==
    {[o EXCEPT !.verbose = v, !.do_json = js[1], !.json_ok = js[2],
               !.js_file = js[3]] :
        o \in ListOpts, v \in 0..2,
        js \in {<<FALSE, TRUE, "none">>, <<TRUE, TRUE, "none">>,
                <<TRUE, FALSE, "none">>, <<TRUE, TRUE, "-">>,
                <<TRUE, TRUE, "file">>}}

\* combinations of --version, --transport, --unit and --long / --list
CheckedOpts ==
    {<<0, FALSE, 0, 0>>, <<1, FALSE, 0, 0>>, <<2, FALSE, 0, 0>>,
     <<0, TRUE, 1, 0>>, <<0, TRUE, 0, 1>>, <<0, TRUE, 0, 3>>,
     <<0, FALSE, 1, 2>>, <<0, FALSE, 1, 0>>, <<1, TRUE, 1, 1>>}

AllOpts ==
    {[o EXCEPT !.version_count = x[1], !.transport_info = x[2],
               !.unit = x[3], !.long_opt = x[4]] :
        o \in OutputOpts, x \in CheckedOpts}

\* the inputs of a run: options, filter arguments, sysfs tree, whether the
\* JSON output file can be opened, and whether getcwd() succeeds (it fails
\* with ERANGE when the path is longer than wd_at_start)
Inputs ==
    {<<o, <<>>, t, TRUE, TRUE>> : o \in ListOpts, t \in Trees}
    \cup {<<o, a, FullTree(f), TRUE, TRUE>> :
             o \in {NoOpts, [NoOpts EXCEPT !.do_hosts = TRUE],
                    [NoOpts EXCEPT !.do_json = TRUE]},
             a \in FilterArgs, f \in {NoFile, File(Fmt_d(3))}}
    \cup {<<o, a, t, f, TRUE>> :
             o \in AllOpts,
             a \in {<<>>, <<<<"x">>>>, <<<<"0">>>>},
             t \in SmallTrees, f \in BOOLEAN}
    \cup {<<o, a, t, f, FALSE>> :
             o \in {x \in AllOpts : x.do_json /\ x.js_file # "none"},
             a \in {<<>>, <<<<"x">>>>},
             t \in SmallTrees, f \in BOOLEAN}

Init ==
    /\ pc = "main"
    /\ \E i \in Inputs :
           /\ op = i[1]
           /\ argv = i[2]
           /\ sysfs = i[3]
           /\ fopen_ok = i[4]
           /\ getcwd_ok = i[5]
    /\ filter = invalidate_hctl
    /\ filter_active = FALSE
    /\ namelist = <<>>
    /\ k = 0
    /\ namelist2 = <<>>
    /\ j = 0
    /\ out = <<>>
    /\ err = <<>>
    /\ scans = <<>>
    /\ res = 0
    /\ jsout = "none"
    /\ cwd = StartDir
    /\ wd_at_start = ""
    /\ jsfile_dir = "none"
    /\ json_tree = "none"
    /\ codec = [pc |-> "idle"]
    /\ cmp = [pc |-> "idle"]
    /\ call = [pc |-> "idle"]

Next ==
    \/ main
    \/ list_sdevices
    \/ list_sdevices_entry
    \/ list_ndevices
    \/ list_ndevices_controller
    \/ list_ndevices_entry
    \/ list_shosts
    \/ list_shosts_entry
    \/ list_nhosts
    \/ list_nhosts_entry
    \/ main_finish

Spec == Init /\ [][Next]_vars

-----------------------------------------------------------------------------
(* Codec harness: parse a text, render the tuple, parse the rendering *)

\* largest small field value the harnesses draw
MaxField == 1

\* sizeof(e) in one_sdev_entry, the buffer tuple2string() renders into
ELEN == 256

\* 2^32 and 2^32 + 32767 as decimal text: they do not fit an int
TextTwo32 == <<"4", "2", "9", "4", "9", "6", "7", "2", "9", "6">>

TextTwo32Nvme == <<"4", "2", "9", "5", "0", "0", "0", "0", "6", "3">>

\* 2^64 as decimal text: it does not fit a uint64_t
TextTwo64 == <<"1", "8", "4", "4", "6", "7", "4", "4", "0", "7", "3", "7",
               "0", "9", "5", "5", "1", "6", "1", "6">>

SmallTexts == {Fmt_d(n) : n \in 0..MaxField}

\* texts of non-negative integers for the host field
HostTexts ==
    SmallTexts \cup {Fmt_d(NVME_HOST_NUM), Fmt_d(NVME_HOST_NUM + 1),
                     Fmt_d(INT_MAX), TextTwo32, TextTwo32Nvme,
                     <<"0", "0", "7">>}

ChanTexts == SmallTexts \cup {Fmt_d(NVME_HOST_NUM)}

TargTexts == SmallTexts \cup {Fmt_d(INT_MAX)}

LunTexts ==
    SmallTexts \cup {Fmt_u64(<<0, 1, 0, 0>>), Fmt_u64(<<0, 0, 65535, 65535>>),
                     Fmt_u64(UINT64_LAST), TextTwo64, <<"0", "1", "0">>}

\* the well-formed "h:c:t:l" texts the harness parses
CodecInputs ==
    {h \o <<":">> \o c \o <<":">> \o t \o <<":">> \o l :
        h \in HostTexts, c \in ChanTexts, t \in TargTexts, l \in LunTexts}

CodecInit ==
    /\ MainIdle
    /\ cmp = [pc |-> "idle"]
    /\ call = [pc |-> "idle"]
    /\ \E s \in CodecInputs :
           codec = [pc |-> "parse", s |-> s, p |-> [ok |-> FALSE],
                    str |-> <<>>, q |-> [ok |-> FALSE]]

\* parse_colon_list(s, &hctl) on a tuple the caller invalidated
CodecParse ==
    /\ codec.pc = "parse"
    /\ codec' = [codec EXCEPT !.pc = "render",
                              !.p = parse_colon_list(codec.s, invalidate_hctl)]
    /\ UNCHANGED <<mainvars, cmp, call>>

\* tuple2string(&hctl, 0xf, ...): all four fields, plain decimal LUN
CodecRender ==
    /\ codec.pc = "render"
    /\ codec' = [codec EXCEPT !.pc = "reparse",
                              !.str = tuple2string(codec.p.v, 15, ELEN)]
    /\ UNCHANGED <<mainvars, cmp, call>>

\* parse_colon_list() on the rendered text
CodecReparse ==
    /\ codec.pc = "reparse"
    /\ codec' = [codec EXCEPT !.pc = "done",
                              !.q = parse_colon_list(codec.str, invalidate_hctl)]
    /\ UNCHANGED <<mainvars, cmp, call>>

CodecNext == CodecParse \/ CodecRender \/ CodecReparse

SpecCodec == CodecInit /\ [][CodecNext]_vars

\* the four integer fields of two parse results agree
SameFields(x, y) == x.h = y.h /\ x.c = y.c /\ x.t = y.t /\ x.l = y.l

\* C1 as stated: for every well-formed "h:c:t:l" text, parsing the
\* all-fields plain-decimal rendering of the parse succeeds and yields the
\* same h, c, t and l.
C1_RoundTrip_Original ==
    (codec.pc = "done" /\ codec.p.ok)
        => (codec.q.ok /\ SameFields(codec.q.v, codec.p.v))

\* C1 amended: the round trip holds whenever the parsed host is not the
\* NVMe sentinel 0x7fff (which renders as "N").
C1_RoundTrip ==
    (codec.pc = "done" /\ codec.p.ok /\ codec.p.v.h # NVME_HOST_NUM)
        => (codec.q.ok /\ SameFields(codec.q.v, codec.p.v))

\* a round trip that ran on a tuple with three different field values and
\* a LUN wider than 32 bits
C1_Witness ==
    /\ codec.pc = "done"
    /\ codec.p.ok
    /\ codec.q.ok
    /\ codec.p.v.h = NVME_HOST_NUM + 1
    /\ codec.p.v.c = 1
    /\ codec.p.v.t = 0
    /\ codec.p.v.l = <<0, 1, 0, 0>>

-----------------------------------------------------------------------------
(* Comparator harness: cmp_hctl on three tuples *)

CmpHosts == (0..MaxField) \cup {0 - 1, NVME_HOST_NUM - 1, NVME_HOST_NUM,
                                NVME_HOST_NUM + 1}

CmpLuns == {U64OfNat(n) : n \in 0..MaxField} \cup {<<0, 1, 0, 0>>, UINT64_LAST}

CmpTuples ==
    {[h |-> h, c |-> c, t |-> t, l |-> l, lun_arr |-> LunArrFF] :
        h \in CmpHosts, c \in 0..1, t \in 0..1, l \in CmpLuns}

CmpInit ==
    /\ MainIdle
    /\ codec = [pc |-> "idle"]
    /\ call = [pc |-> "idle"]
    /\ \E a \in CmpTuples : cmp = [pc |-> "first", a |-> a]

\* cmp_hctl(a, a), cmp_hctl(a, b) and cmp_hctl(b, a) for a second tuple b
CmpFirst ==
    /\ cmp.pc = "first"
    /\ \E b \in CmpTuples :
           cmp' = [pc |-> "second", a |-> cmp.a, b |-> b,
                   aa |-> cmp_hctl(cmp.a, cmp.a),
                   ab |-> cmp_hctl(cmp.a, b),
                   ba |-> cmp_hctl(b, cmp.a)]
    /\ UNCHANGED <<mainvars, codec, call>>

\* cmp_hctl(b, c) and cmp_hctl(a, c) for a third tuple c
CmpSecond ==
    /\ cmp.pc = "second"
    /\ \E c \in CmpTuples :
           cmp' = [cmp EXCEPT !.pc = "done"] @@
                  [c |-> c, bc |-> cmp_hctl(cmp.b, c),
                   ac |-> cmp_hctl(cmp.a, c)]
    /\ UNCHANGED <<mainvars, codec, call>>

CmpNext == CmpFirst \/ CmpSecond

SpecCmp == CmpInit /\ [][CmpNext]_vars

\* a is before b in the lexicographic order over (h, c, t, l), the LUN
\* taken as an unsigned 64-bit number
LexLess(a, b) ==
    \/ a.h < b.h
    \/ a.h = b.h /\ a.c < b.c
    \/ a.h = b.h /\ a.c = b.c /\ a.t < b.t
    \/ a.h = b.h /\ a.c = b.c /\ a.t = b.t /\ U64Lt(a.l, b.l)

\* C2: cmp_hctl is a strict total order, lexicographic over (h, c, t, l):
\* results are in {-1, 0, 1}, cmp(a, a) = 0, cmp(a, b) = -cmp(b, a),
\* cmp(a, b) = 0 only for equal fields, cmp(a, b) = -1 exactly when a is
\* lexicographically before b, and -1 is transitive.
C2_StrictTotalOrder ==
    /\ cmp.pc \in {"second", "done"} =>
        /\ cmp.ab \in {0 - 1, 0, 1}
        /\ cmp.aa = 0
        /\ cmp.ab = 0 - cmp.ba
        /\ (cmp.ab = 0 => SameFields(cmp.a, cmp.b))
        /\ (cmp.ab = 0 - 1 <=> LexLess(cmp.a, cmp.b))
    /\ cmp.pc = "done" =>
        ((cmp.ab = 0 - 1 /\ cmp.bc = 0 - 1) => cmp.ac = 0 - 1)

\* three tuples in strictly ascending order that differ, pairwise, only in
\* the target or only in the LUN
C2_Witness ==
    /\ cmp.pc = "done"
    /\ cmp.ab = 0 - 1 /\ cmp.bc = 0 - 1 /\ cmp.ac = 0 - 1
    /\ cmp.a.h = cmp.c.h /\ cmp.a.c = cmp.c.c
    /\ cmp.a.t = cmp.b.t /\ cmp.b.t < cmp.c.t
    /\ cmp.c.l = U64Zero /\ cmp.b.l = UINT64_LAST

\* C3 as stated: a tuple with any non-negative SCSI host number (any host
\* other than the sentinel itself) compares -1 against a tuple whose host
\* is the NVMe sentinel.
C3_NvmeLast_Original ==
    (cmp.pc \in {"second", "done"} /\ cmp.a.h >= 0
        /\ cmp.a.h # NVME_HOST_NUM
        /\ cmp.b.h = NVME_HOST_NUM) => cmp.ab = 0 - 1

\* C3 amended: a tuple with a host number in 0 .. 0x7ffe compares -1
\* against a tuple whose host is the NVMe sentinel, whatever the other
\* fields are.
C3_NvmeLast ==
    (cmp.pc \in {"second", "done"} /\ cmp.a.h >= 0 /\ cmp.a.h < 32767
        /\ cmp.b.h = NVME_HOST_NUM) => (cmp.ab = 0 - 1 /\ cmp.ba = 1)

\* host 1 with the larger channel, target and LUN against an NVMe tuple
C3_Witness ==
    /\ cmp.pc = "second"
    /\ cmp.a.h = 1 /\ cmp.b.h = NVME_HOST_NUM
    /\ cmp.a.c > cmp.b.c /\ cmp.a.t > cmp.b.t
    /\ cmp.a.l = UINT64_LAST /\ cmp.b.l = U64Zero
    /\ cmp.ab = 0 - 1

-----------------------------------------------------------------------------
(* Properties of the listing *)

\* the names of the entries of one kind emitted so far, in output order
EntryNames(kind) ==
    LET es == SelectSeq(out, LAMBDA e : e.kind = kind)
    IN  [i \in 1..Len(es) |-> es[i].name]

\* the tuple a directory name parses to
TupleOf(name) == parse_colon_list(name, invalidate_hctl).v

\* the elements of S in ascending lexicographic tuple order
Ascending(S) ==
    [i \in 1..Cardinality(S) |->
        CHOOSE d \in S :
            Cardinality({x \in S : LexLess(TupleOf(x), TupleOf(d))}) = i - 1]

\* the entries of /sys/bus/scsi/devices that list_sdevices() selects
SelectedDevices ==
    {d \in Range(sysfs.scsi_devices.ents) :
        sdev_dir_scan_select(d, invalidate_hctl) = 1}

\* main() has returned after a device listing that scanned the SCSI
\* directory
DevicesListed ==
    /\ pc = "exit"
    /\ ~op.do_hosts
    /\ scans # <<>>
    /\ sysfs.scsi_devices.ok

\* C4: list_sdevices emits the SCSI devices in non-decreasing cmp_hctl
\* order of their parsed names, and the emitted sequence depends only on
\* the set of directory entries, not on their enumeration order: it is
\* the ascending arrangement of the selected entries.
C4_SortedOutput ==
    LET e == EntryNames("sdev")
    IN  /\ \A i \in 1..(Len(e) - 1) :
               cmp_hctl(TupleOf(e[i]), TupleOf(e[i + 1])) <= 0
        /\ DevicesListed => e = Ascending(SelectedDevices)

\* three devices enumerated in descending order came out ascending
C4_Witness ==
    /\ DevicesListed
    /\ sysfs.scsi_devices.ents =
           <<HctlName(10, 0, 0, 0), HctlName(2, 0, 0, 0), HctlName(0, 0, 0, 1)>>
    /\ EntryNames("sdev") =
           <<HctlName(0, 0, 0, 1), HctlName(2, 0, 0, 0), HctlName(10, 0, 0, 0)>>

\* the controller minor and the namespace id in a name "nvme<C>n<NSID>"
NsMinor(name) == Scan_d(From(name, 5)).val

NsId(name) == Scan_u32(From(name, StrRChr(name, "n") + 1)).val

\* C5: in a device listing the NVMe namespaces found under one controller
\* are emitted in ascending namespace id order, whatever the enumeration
\* order of the controller's directory.
C5_NamespaceOrder ==
    LET e == EntryNames("ndev")
    IN  \A p \in 1..Len(e), q \in 1..Len(e) :
            (p < q /\ NsMinor(e[p]) = NsMinor(e[q]))
                => U64Lt(NsId(e[p]), NsId(e[q]))

\* C6: in a device listing every SCSI device entry is emitted before every
\* NVMe namespace entry, and with --no-nvme or --classic no NVMe entry is
\* emitted at all.
C6_ScsiBeforeNvme ==
    ~op.do_hosts =>
        /\ \A p \in 1..Len(out), q \in 1..Len(out) :
               (out[p].kind = "ndev" /\ out[q].kind = "sdev") => q < p
        /\ (op.no_nvme \/ op.classic) =>
               (\A p \in 1..Len(out) : out[p].kind \notin {"ndev", "empty"})
        /\ (op.no_nvme \/ op.classic) =>
               (\A p \in 1..Len(scans) : scans[p] = "bus/scsi/devices")

\* a finished default listing with two devices followed by two namespaces
C6_Witness ==
    /\ pc = "exit"
    /\ ~op.do_hosts /\ ~op.no_nvme /\ ~op.classic
    /\ Len(out) = 4
    /\ out[1].kind = "sdev" /\ out[2].kind = "sdev"
    /\ out[3].kind = "ndev" /\ out[4].kind = "ndev"

\* a directory name of the kernel's form "h:c:t:l"
IsHctlName(d) ==
    d # <<>> /\ IsDigit(d[1]) /\ parse_colon_list(d, invalidate_hctl).ok

\* every field of the filter is a wildcard or equals the tuple's field
FilterMatches(t) ==
    /\ (filter.h = 0 - 1 \/ filter.h = t.h)
    /\ (filter.c = 0 - 1 \/ filter.c = t.c)
    /\ (filter.t = 0 - 1 \/ filter.t = t.t)
    /\ (filter.l = UINT64_LAST \/ filter.l = t.l)

AllWildcards ==
    /\ filter.h = 0 - 1 /\ filter.c = 0 - 1 /\ filter.t = 0 - 1
    /\ filter.l = UINT64_LAST

\* C7: a SCSI device directory entry named h:c:t:l is listed if and only
\* if each filter field is a wildcard (-1, or all-ones for the LUN) or
\* equals the field of the entry's parsed tuple; with no filter, or a
\* filter of four wildcards, every such entry is listed.
C7_ScsiFilter ==
    DevicesListed =>
        \A d \in Range(sysfs.scsi_devices.ents) :
            IsHctlName(d) =>
                /\ d \in Range(EntryNames("sdev")) <=> FilterMatches(TupleOf(d))
                /\ (argv = <<>> \/ AllWildcards)
                       => d \in Range(EntryNames("sdev"))

\* a filter on the LUN alone listed one of four devices
C7_Witness ==
    /\ DevicesListed
    /\ filter_active
    /\ filter.h = 0 - 1 /\ filter.l = U64OfNat(1)
    /\ Cardinality({d \in Range(sysfs.scsi_devices.ents) : IsHctlName(d)}) = 4
    /\ EntryNames("sdev") = <<HctlName(0, 0, 0, 1)>>

\* main() has returned after a device listing that scanned /sys/class/nvme
\* and the directory of every controller in it
NamespacesListed ==
    /\ pc = "exit"
    /\ ~op.do_hosts /\ ~op.no_nvme /\ ~op.classic
    /\ \E p \in 1..Len(scans) : scans[p] = "class/nvme"
    /\ sysfs.nvme.ok
    /\ \A c \in Range(sysfs.nvme.ents) : c.dir.ok

\* a directory entry of the kernel's form "nvme<C>n<NSID>"
IsNsName(d) ==
    /\ HasPrefix(d, NvmeText)
    /\ Scan_d(From(d, 5)).ok
    /\ StrChr(From(d, 5), "n") > 0
    /\ Scan_u32(From(d, StrRChr(d, "n") + 1)).ok

\* the host field of the filter argument, as text
HostFieldText ==
    LET t == From(argv[1], FilterLead(argv[1]) + 1)
        e == StrChr(t, ":")
    IN  IF e = 0 THEN t ELSE SubSeq(t, 1, e - 1)

\* the controller, target and LUN fields of the filter admit namespace d
\* of a controller whose cntlid attribute reads value
NvmeFieldsMatch(d, value) ==
    /\ (filter.c = 0 - 1 \/ filter.c = NsMinor(d))
    /\ (filter.t = 0 - 1 \/ filter.t = Scan_d(value).val)
    /\ (filter.l = UINT64_LAST \/ filter.l = NsId(d))

\* C8 as stated: a namespace nvme<C>n<NSID> under a controller whose
\* cntlid is K is listed if and only if the filter host is a wildcard or
\* 'N' and the other three fields are wildcards or equal C, K and NSID; a
\* filter naming a numeric host lists no namespace.
C8_NvmeFilter_Original ==
    (NamespacesListed /\ filter_active) =>
        \A c \in Range(sysfs.nvme.ents) :
            c.cntlid.ok =>
                \A d \in Range(c.dir.ents) :
                    IsNsName(d) =>
                        (d \in Range(EntryNames("ndev")) <=>
                            /\ (filter.h = 0 - 1
                                   \/ HostFieldText \in {<<"N">>, <<"n">>})
                            /\ NvmeFieldsMatch(d, c.cntlid.value))

\* C8 amended: the namespace is listed if and only if the filter host is a
\* wildcard, 'N' or the number 32767 that 'N' decodes to, and the other
\* three fields are wildcards or equal C, K and NSID; a filter naming any
\* other host lists no namespace.
C8_NvmeFilter ==
    (NamespacesListed /\ filter_active) =>
        \A c \in Range(sysfs.nvme.ents) :
            c.cntlid.ok =>
                \A d \in Range(c.dir.ents) :
                    IsNsName(d) =>
                        (d \in Range(EntryNames("ndev")) <=>
                            /\ (filter.h = 0 - 1 \/ filter.h = 32767)
                            /\ NvmeFieldsMatch(d, c.cntlid.value))

\* the filter n:-:3 listed the two namespaces of the controller with
\* cntlid 3 and not the namespace of the controller with cntlid 4
C8_Witness ==
    /\ NamespacesListed
    /\ filter_active
    /\ HostFieldText = <<"n">>
    /\ filter.t = 3 /\ filter.c = 0 - 1 /\ filter.l = UINT64_LAST
    /\ Len(sysfs.nvme.ents) = 2
    /\ \A c \in Range(sysfs.nvme.ents) : c.cntlid.ok
    /\ Range(EntryNames("ndev")) = {NsName(0, 1), NsName(0, 2)}

\* the filter text one_filter_arg() is given: the first argument without a
\* leading "host" or "HOST" if it holds a colon or stands alone, else the
\* arguments joined with colons; then without leading blanks and '['
RECURSIVE JoinColon(_)
JoinColon(a) ==
    IF Len(a) = 1 THEN a[1] ELSE a[1] \o Colon \o JoinColon(Tail(a))

FirstArg ==
    IF HasPrefix(argv[1], HostText) \/ HasPrefix(argv[1], <<"H", "O", "S", "T">>)
    THEN From(argv[1], 5) ELSE argv[1]

FilterText ==
    LET t == IF Len(argv) = 1 \/ StrChr(FirstArg, ":") > 0 THEN FirstArg
             ELSE JoinColon(<<FirstArg>> \o Tail(argv))
    IN  From(t, FilterLead(t) + 1)

\* the pieces of s between its colons
RECURSIVE ColonFields(_)
ColonFields(s) ==
    LET e == StrChr(s, ":")
    IN  IF e = 0 THEN <<s>>
        ELSE <<SubSeq(s, 1, e - 1)>> \o ColonFields(From(s, e + 1))

\* a decimal integer, or for the LUN also a hexadecimal one with "0x"
IsInteger(f) ==
    \/ f # <<>> /\ \A i \in 1..Len(f) : IsDigit(f[i])
    \/ /\ Len(f) > 2 /\ f[1] = "0" /\ ToUpper(f[2]) = "X"
       /\ \A i \in 3..Len(f) : IsHexDigit(f[i])

IsWildcard(f) == f = <<>> \/ f[1] \in {"*", "?", "-"}

\* the run ends in main() with status 1 and a message, nothing scanned and
\* nothing emitted
Rejected ==
    /\ pc \in {"main", "exit"}
    /\ scans = <<>>
    /\ out = <<>>
    /\ pc = "exit" => (res = 1 /\ err # <<>>)

\* the option parsing, --version and the --json argument let main() reach
\* the filter arguments
ReachesFilter ==
    /\ pc # "idle"
    /\ argv # <<>>
    /\ op.version_count = 0
    /\ op.do_json => op.json_ok

NoLeadingInteger(f) ==
    LET a == From(f, SkipSpace(f) + 1)
        b == IF a # <<>> /\ a[1] \in {"+", "-"} THEN Tail(a) ELSE a
    IN  b = <<>> \/ ~IsDigit(b[1])

\* field i of the filter text is one one_filter_arg() refuses
Undecodable(f, i) ==
    /\ ~IsWildcard(f)
    /\ NoLeadingInteger(f)
    /\ ~(i = 1 /\ f \in {<<"N">>, <<"n">>})
    /\ \A p \in 1..Len(f) : f[p] # "]"

\* the first argument has the form host<n> that decode_filter_arg() takes
\* as a host number without looking at the other arguments
HostForm ==
    /\ HasPrefix(FirstArg, HostText)
    /\ ~NoLeadingInteger(From(FirstArg, 5))
    /\ Scan_d(From(FirstArg, 5)).val >= 0

\* the filter arguments are among those main() refuses
RefusedFilter ==
    \/ Len(argv) > 4
    \/ /\ ~HostForm
       /\ LET f == ColonFields(FilterText)
          IN  \/ Len(f) > 4 /\ f[5] # <<>>
              \/ Len(f) > 5
              \/ \E i \in 1..Len(f) :
                     i <= 4 /\ (Len(f[i]) > 63 \/ Undecodable(f[i], i))

Entries(dir, Test(_)) == {d \in Range(dir.ents) : Test(d)}

IsHostName(d) == HasPrefix(d, HostText) /\ Scan_u32(From(d, 5)).ok

IsCtlName(d) == HasPrefix(d, NvmeText) /\ Scan_d(From(d, 5)).ok

\* the SCSI listing of the run was performed: its directory was scanned
\* first, and without a filter every device (or host) in it was emitted
ScsiListingDone ==
    /\ scans[1] = IF op.do_hosts THEN "class/scsi_host" ELSE "bus/scsi/devices"
    /\ (~op.do_hosts /\ sysfs.scsi_devices.ok /\ ~filter_active)
           => Range(EntryNames("sdev")) = Entries(sysfs.scsi_devices, IsHctlName)
    /\ (op.do_hosts /\ ~op.classic /\ sysfs.scsi_host.ok /\ ~filter_active)
           => Range(EntryNames("shost")) = Entries(sysfs.scsi_host, IsHostName)

\* the NVMe listing of the run was performed: /sys/class/nvme was scanned,
\* and without a filter every controller, or every namespace of the
\* controllers (if all their directories can be scanned), was emitted
NvmeListingDone ==
    /\ \E p \in 1..Len(scans) : scans[p] = "class/nvme"
    /\ (op.do_hosts /\ sysfs.nvme.ok /\ ~filter_active)
           => Range(EntryNames("nhost")) = Entries(ClassNvme, IsCtlName)
    /\ (/\ ~op.do_hosts /\ sysfs.nvme.ok /\ ~filter_active
        /\ \A c \in Range(sysfs.nvme.ents) : c.dir.ok)
           => Range(EntryNames("ndev")) =
                  UNION {Entries(c.dir, IsNsName) : c \in Range(sysfs.nvme.ents)}

\* the run went through a listing and main() has returned
ListingOver == pc = "exit" /\ scans # <<>>

\* what C10 says of a run whose SCSI or NVMe top-level directory cannot be
\* scanned, but for the exit status
ScanFailureTolerated ==
    /\ (IF op.do_hosts THEN ~sysfs.scsi_host.ok ELSE ~sysfs.scsi_devices.ok)
           => /\ EntryNames("sdev") = <<>> /\ EntryNames("shost") = <<>>
              /\ (~op.no_nvme /\ ~op.classic) => NvmeListingDone
    /\ (~op.no_nvme /\ ~op.classic /\ ~sysfs.nvme.ok)
           => /\ EntryNames("ndev") = <<>> /\ EntryNames("nhost") = <<>>
              /\ ScsiListingDone

ScanFailed ==
    \/ (IF op.do_hosts THEN ~sysfs.scsi_host.ok ELSE ~sysfs.scsi_devices.ok)
    \/ (~op.no_nvme /\ ~op.classic /\ ~sysfs.nvme.ok)

\* C10 as stated: when the top-level SCSI (or NVMe) directory cannot be
\* scanned, that listing contributes no entry, the listing of the other
\* subsystem is still performed, and the exit status is 0.
C10_ScanFailure_Original ==
    (ListingOver /\ ScanFailed) => (ScanFailureTolerated /\ res = 0)

\* C10 amended: that listing contributes no entry, the listing of the
\* other subsystem is still performed, and the scan failure leaves the
\* exit status alone: it is 0 unless the file named by --js-file cannot be
\* opened, and 1 then.
C10_ScanFailure ==
    (ListingOver /\ ScanFailed) =>
        /\ ScanFailureTolerated
        /\ res = IF op.do_json /\ op.js_file = "file" /\ ~fopen_ok
                 THEN 1 ELSE 0

\* the SCSI directory could not be scanned, the two namespaces were
\* listed, and main() returned 0
C10_Witness ==
    /\ ListingOver
    /\ ~op.do_hosts
    /\ ~sysfs.scsi_devices.ok
    /\ EntryNames("ndev") = <<NsName(0, 1), NsName(0, 2)>>
    /\ res = 0

-----------------------------------------------------------------------------
(* C11: messages about a top-level directory that cannot be scanned *)

\* what the list functions write when their top-level scandir() fails:
\* the perror() lines on stderr and the sgj_pr_hr() lines on stdout
ScanFailureMessages ==
    {"list_sdevices: scandir", "list_ndevices: scandir",
     "list_shosts: scandir", "list_nhosts: scandir"}

ScanFailureLines == {"SCSI mid level", "NVMe"}

ScanFailureReported ==
    \/ \E p \in 1..Len(err) : err[p] \in ScanFailureMessages
    \/ \E p \in 1..Len(out) : out[p].kind \in ScanFailureLines

\* C11: when a top-level SCSI or NVMe class directory cannot be scanned, a
\* message about it is written only if verbose mode is active; with
\* verbose level 0 nothing is written for it, in device listing and in
\* host listing alike.
C11_QuietScanFailure == ScanFailureReported => op.verbose > 0

-----------------------------------------------------------------------------
(* C12: the JSON destination file cannot be opened *)

\* main() got as far as fopen(op->js_file, "w") and it returned NULL
OpenFailed ==
    /\ ListingOver
    /\ op.do_json /\ op.js_file = "file"
    /\ ~fopen_ok

\* C12: when the JSON destination file cannot be opened for writing, no
\* JSON document is written, the exit status is 1, and the in-memory JSON
\* tree is still released (sgj_finish runs) before the program returns.
C12_OpenFailure ==
    OpenFailed =>
        /\ jsout = "none" /\ jsfile_dir = "none"
        /\ res = 1
        /\ json_tree = "freed"

\* a device was listed into the JSON tree, the file could not be opened,
\* and main() returned 1 with the tree freed and nothing written
C12_Witness ==
    /\ OpenFailed
    /\ EntryNames("sdev") = <<HctlName(0, 0, 0, 1)>>
    /\ "unable to open file" \in Range(err)
    /\ jsout = "none"
    /\ res = 1
    /\ json_tree = "freed"

-----------------------------------------------------------------------------
(* C13: the directory the --js-file file is created in *)

\* C13: whenever the JSON output file named by --js-file is created, the
\* working directory equals the working directory at program start: the
\* start directory is captured before any chdir made during scanning and
\* is restored before the file is opened, after any sequence of directory
\* changes made while listing.
C13_JsFileDirectory ==
    /\ wd_at_start \in {"", StartDir}
    /\ jsfile_dir # "none" => jsfile_dir = StartDir

-----------------------------------------------------------------------------
(* transport_init(): the transport of a SCSI host *)

TRANSPORT_UNKNOWN == 0

TRANSPORT_SPI == 1

TRANSPORT_FC == 2

TRANSPORT_SAS == 3

TRANSPORT_SAS_CLASS == 4

TRANSPORT_ISCSI == 5

TRANSPORT_SBP == 6

TRANSPORT_USB == 7

TRANSPORT_ATA == 8

TRANSPORT_SATA == 9

TRANSPORT_FCOE == 10

TRANSPORT_SRP == 11

\* sizeof(o) in one_shost_entry(), the line transport_init() writes into
O_LEN == 144

\* the texts transport_init() writes and looks for
Ahci == <<"a", "h", "c", "i">>

SataText == <<"s", "a", "t", "a", ":">>

AtaText == <<"a", "t", "a", ":">>

Ata == <<"a", "t", "a">>

Sata == <<"s", "a", "t", "a">>

Usb == <<"u", "s", "b">>

SlashHost == <<"/", "h", "o", "s", "t">>

UsbText == <<"u", "s", "b", ":">>

IscsiText == <<"i", "s", "c", "s", "i", ":">>

SbpText == <<"s", "b", "p", ":">>

FwHost == <<"/", "f", "w", "-", "h", "o", "s", "t">>

SasText == <<"s", "a", "s", ":">>

SrpText == <<"s", "r", "p", ":">>

FcText == <<"f", "c", ":">>

FcoeText == <<"f", "c", "o", "e", ":">>

Over == <<" ", "o", "v", "e", "r", " ">>

SpiText == <<"s", "p", "i", ":">>

\* strstr(s, p): the position of the first occurrence of p in s, or 0
StrStr(s, p) ==
    IF Contains(s, p)
    THEN CHOOSE i \in 1..(Len(s) - Len(p) + 1) :
             /\ SubSeq(s, i, i + Len(p) - 1) = p
             /\ \A m \in 1..(i - 1) : SubSeq(s, m, m + Len(p) - 1) # p
    ELSE 0

\* get_value(dir, name, value, max_value_len) on a file that exists: the
\* first line of the file, as far as fgets() has room for it
get_value(file, max_value_len) == Truncated(file.value, max_value_len)

\* what transport_init() returns and leaves behind: its return value, the
\* static transport_id, the text in b, the probes it went through in
\* order, and its lines on stderr
Left(ret, id, b, probes, msgs) ==
    [ret |-> ret, transport_id |-> id, b |-> b, probes |-> probes,
     err |-> msgs]

\* the end of a probe that has written pfx to b and wants one attribute
\* behind it
Attribute(file, id, pfx, b_len, probes, msgs) ==
    IF file.ok
    THEN Left(TRUE, id,
              Truncated(pfx, b_len)
                  \o get_value(file, b_len - Len(Truncated(pfx, b_len))),
              probes, <<>>)
    ELSE Left(FALSE, id, Truncated(pfx, b_len), probes, msgs)

\* the ATA or SATA probe: the driver name in proc_name
AtaProbe(h, b_len, id, b, probes) ==
    IF h.proc_name.ok /\ h.proc_name.value = Ahci
    THEN Left(TRUE, TRANSPORT_SATA, Truncated(SataText, b_len), probes, <<>>)
    ELSE IF h.proc_name.ok /\ Contains(h.proc_name.value, Ata)
    THEN IF HasPrefix(h.proc_name.value, Sata)
         THEN Left(TRUE, TRANSPORT_SATA, Truncated(SataText, b_len), probes,
                   <<>>)
         ELSE Left(TRUE, TRANSPORT_ATA, Truncated(AtaText, b_len), probes,
                   <<>>)
    ELSE Left(FALSE, id, b, probes, <<>>)

\* the text get_usb_devname() copies out of the path bf2: what lies between
\* the last '/' before the character in front of "/host" (at cp) and cp
UsbName(bf2, cp, c2p) ==
    IF cp > 2 /\ c2p > 0 THEN SubSeq(bf2, c2p + 1, cp - 1) ELSE <<>>

UsbHost(bf2, cp) ==
    UsbName(bf2, cp, IF cp > 2 THEN StrRChr(SubSeq(bf2, 1, cp - 2), "/")
                     ELSE 0)

\* get_usb_devname(hname, NULL, b, b_len): NoFile stands for NULL
get_usb_devname(path) ==
    IF path.ok /\ Contains(path.value, Usb)
    THEN File(UsbHost(path.value, StrStr(path.value, SlashHost)))
    ELSE NoFile

\* the USB probe
UsbStep(h, b_len, id, b, probes, cp) ==
    IF cp.ok
    THEN Left(TRUE, TRANSPORT_USB, Truncated(UsbText \o cp.value, b_len),
              probes, <<>>)
    ELSE AtaProbe(h, b_len, id, b, Append(probes, "ata"))

UsbProbe(h, b_len, id, b, probes) ==
    UsbStep(h, b_len, id, b, probes, get_usb_devname(h.realpath))

\* the iSCSI probe
IscsiProbe(h, b_len, id, b, probes) ==
    IF h.iscsi_host
    THEN Left(TRUE, TRANSPORT_ISCSI, Truncated(IscsiText, b_len), probes,
              <<>>)
    ELSE UsbProbe(h, b_len, id, b, Append(probes, "usb"))

\* the SBP probe once strstr(buff2, "/fw-host") has given t and, for t > 0,
\* strchr(t + 1, '/') has given sl: a break leaves the do block for the
\* iSCSI probe, with transport_id already set when "/fw-host" was found
SbpStep(h, b_len, id, b, probes, t, sl) ==
    IF t > 0 /\ sl > 0 /\ h.guid.ok /\ Len(h.guid.value) = 18
    THEN Left(TRUE, TRANSPORT_SBP,
              Truncated(SbpText \o From(h.guid.value, 3), b_len), probes,
              <<>>)
    ELSE IscsiProbe(h, b_len, IF t > 0 THEN TRANSPORT_SBP ELSE id, b,
                    Append(probes, "iscsi"))

SbpLink(h, b_len, id, b, probes, buff2, t) ==
    SbpStep(h, b_len, id, b, probes, t,
            IF t > 0 THEN StrChr(From(buff2, t + 1), "/") ELSE 0)

\* the SBP probe: readlink() does not terminate buff2, which is not
\* initialized, so strstr() reads the link and then what the stack holds
SbpProbe(h, b_len, id, b, probes, stack) ==
    IF ~h.device.ok \/ h.device.value = <<>>
    THEN IscsiProbe(h, b_len, id, b, Append(probes, "iscsi"))
    ELSE SbpLink(h, b_len, id, b, probes, h.device.value \o stack,
                 StrStr(h.device.value \o stack, FwHost))

\* the probe of the SAS class representation, device/sas/ha
SasClassProbe(h, b_len, vb, id, b, probes, stack) ==
    IF h.sas_ha
    THEN Attribute(h.device_name, TRANSPORT_SAS_CLASS, SasText, b_len,
                   probes,
                   IF vb THEN <<"transport_init: no device_name">>
                   ELSE <<>>)
    ELSE SbpProbe(h, b_len, id, b, Append(probes, "sbp"), stack)

\* the probe of the SAS transport class; phys is what sas_low_phy_scan()
\* returns and sas_address the attribute of the phy it found lowest
SasProbe(h, b_len, vb, id, b, probes, stack) ==
    IF h.sas_host
    THEN IF h.phys < 1
         THEN Left(FALSE, TRANSPORT_SAS, Truncated(SasText, b_len), probes,
                   <<>>)
         ELSE Attribute(h.sas_address, TRANSPORT_SAS, SasText, b_len, probes,
                        IF vb THEN <<"transport_init: no sas_address">>
                        ELSE <<>>)
    ELSE SasClassProbe(h, b_len, vb, id, b, Append(probes, "sas_class"),
                       stack)

\* get_local_srp_gid(h, b, b_len) behind what b holds: the GID after its
\* first 20 characters, if every attribute on the way can be read
get_local_srp_gid(gid, b, b_len) ==
    IF gid.ok /\ Len(gid.value) > 20
    THEN b \o Truncated(From(gid.value, 21), b_len - Len(b))
    ELSE b

\* the SRP probe
SrpProbe(devname, h, b_len, vb, id, b, probes, stack) ==
    IF h.srp_host
    THEN Left(TRUE, TRANSPORT_SRP,
              IF HasPrefix(devname, HostText) /\ Scan_d(From(devname, 5)).ok
              THEN get_local_srp_gid(h.srp_gid, Truncated(SrpText, b_len),
                                     b_len)
              ELSE Truncated(SrpText, b_len),
              probes, <<>>)
    ELSE SasProbe(h, b_len, vb, id, b, Append(probes, "sas"), stack)

\* the FC probe once b holds "fc:" or "fcoe:": port_name, a comma and
\* port_id behind it, and false when port_name or port_id is missing
\* (FcPortName, then FcComma, then FcPortId)
FcPortId(h, b_len, id, b, probes) ==
    IF h.port_id.ok
    THEN Left(TRUE, id, b \o get_value(h.port_id, b_len - Len(b)), probes,
              <<>>)
    ELSE Left(FALSE, id, b, probes, <<>>)

FcComma(h, b_len, id, b, probes) ==
    FcPortId(h, b_len, id, b \o my_strcopy(<<",">>, b_len - Len(b)), probes)

\* a FcPortName() that goes on to port_id when port_name is missing
FcPortName_not_needed(h, b_len, id, b, probes) ==
    FcComma(h, b_len, id,
            IF h.port_name.ok
            THEN b \o get_value(h.port_name, b_len - Len(b)) ELSE b,
            probes)

FcPortName(h, b_len, id, b, probes) ==
    IF h.port_name.ok
    THEN FcComma(h, b_len, id, b \o get_value(h.port_name, b_len - Len(b)),
                 probes)
    ELSE Left(FALSE, id, b, probes, <<>>)

\* a FcKind() that never classifies as FCoE
FcKind_always_fc(h, b_len, id, b, probes) ==
    FcPortName(h, b_len, TRANSPORT_FC, Truncated(FcText, b_len), probes)

\* the FC probe once symbolic_name has been looked at
FcKind(h, b_len, id, b, probes) ==
    IF id # TRANSPORT_FCOE
    THEN FcPortName(h, b_len, TRANSPORT_FC, Truncated(FcText, b_len), probes)
    ELSE FcPortName(h, b_len, id, b, probes)

\* the FC probe
FcProbe(devname, h, b_len, vb, id, b, probes, stack) ==
    IF h.fc_host
    THEN IF h.symbolic_name.ok /\ Contains(h.symbolic_name.value, Over)
         THEN FcKind(h, b_len, TRANSPORT_FCOE, Truncated(FcoeText, b_len),
                     probes)
         ELSE FcKind(h, b_len, id, b, probes)
    ELSE SrpProbe(devname, h, b_len, vb, id, b, Append(probes, "srp"), stack)

\* transport_init(devname, b_len, b) for the host with pseudo-tree h, with
\* vb for gl_verbose != 0, id the transport_id and b the text found at the
\* call, and stack what follows buff2 on the stack
transport_init_fc_first(devname, h, b_len, vb, id, b, stack) ==
    FcProbe(devname, h, b_len, vb, id, b, <<"fc">>, stack)

transport_init(devname, h, b_len, vb, id, b, stack) ==
    IF h.spi_host
    THEN Left(TRUE, TRANSPORT_SPI, Truncated(SpiText, b_len), <<"spi">>, <<>>)
    ELSE FcProbe(devname, h, b_len, vb, id, b, <<"spi", "fc">>, stack)

-----------------------------------------------------------------------------
(* Transport harness: one call of transport_init() on a host's pseudo-tree *)

\* the attributes and links of the pseudo-trees
PlainName == File(<<"Q", "L", "E", "2", "5", "6", "2", " ", "F", "W", ":",
        "v", "8">>)

OverName == File(<<"f", "c", "o", "e", " ", "v", "0", ".", "1", " ", "o",
        "v", "e", "r", " ", "e", "t", "h", "2">>)

PortName == File(<<"0", "x", "2", "1", "0", "0", "0", "0", "2", "4", "f",
        "f", "3", "a">>)

PortId == File(<<"0", "x", "0", "1", "0", "2", "0", "0">>)

SrpGid == File(<<"f", "e", "8", "0", ":", "0", "0", "0", "0", ":", "0",
        "0", "0", "0", ":", "0", "0", "0", "0", ":", "0", "0", "0", "2",
        ":", "c", "9", "0", "3">>)

SasAddress == File(<<"0", "x", "5", "0", "0", "0", "c", "5", "0", "0", "0",
        "a">>)

PciLink == File(<<".", ".", "/", ".", ".", "/", ".", ".", "/", "0", "0",
        "0", "0", ":", "0", "0", ":", "1", "f", ".", "2">>)

FwLinkEnd == File(<<".", ".", "/", ".", ".", "/", "f", "w", "-", "h", "o",
        "s", "t", "0">>)

FwLink == File(<<".", ".", "/", ".", ".", "/", "f", "w", "-", "h", "o",
        "s", "t", "0", "/", "0", "-", "0">>)

Guid == File(<<"0", "x", "0", "0", "0", "1", "0", "2", "0", "3", "0", "4",
        "0", "5", "0", "6", "0", "7">>)

ShortGuid == File(<<"0", "x", "0", "0">>)

PciPath == File(<<"/", "d", "e", "v", "i", "c", "e", "s", "/", "p", "c",
        "i", "0", "/", "h", "o", "s", "t", "0">>)

UsbPath == File(<<"/", "d", "e", "v", "i", "c", "e", "s", "/", "u", "s",
        "b", "1", "/", "1", "-", "2", "/", "h", "o", "s", "t", "0">>)

\* the class/fc_host directory of the host: absent, or with each of its
\* attributes present or missing
NoFc == [dir |-> FALSE, sym |-> NoFile, ptn |-> NoFile, pid |-> NoFile]

FcAll ==
    {NoFc} \cup
    {[dir |-> TRUE, sym |-> s, ptn |-> p, pid |-> q] :
        s \in {NoFile, PlainName, OverName}, p \in {NoFile, PortName},
        q \in {NoFile, PortId}}

FcFew == {NoFc, [dir |-> TRUE, sym |-> PlainName, ptn |-> PortName,
                 pid |-> PortId]}

\* the class/srp_host directory and the GID get_local_srp_gid() finds
NoSrp == [dir |-> FALSE, gid |-> NoFile]

SrpAll == {NoSrp, [dir |-> TRUE, gid |-> NoFile],
           [dir |-> TRUE, gid |-> SrpGid]}

SrpFew == {NoSrp, [dir |-> TRUE, gid |-> SrpGid]}

\* the class/sas_host directory, the number of phys and the address of the
\* lowest
NoSas == [dir |-> FALSE, phys |-> 0 - 1, ad |-> NoFile]

SasAll == {NoSas, [dir |-> TRUE, phys |-> 0, ad |-> NoFile],
           [dir |-> TRUE, phys |-> 1, ad |-> NoFile],
           [dir |-> TRUE, phys |-> 1, ad |-> SasAddress]}

SasFew == {NoSas, [dir |-> TRUE, phys |-> 1, ad |-> SasAddress]}

\* the device/sas/ha directory and its device_name
NoHa == [dir |-> FALSE, name |-> NoFile]

HaAll == {NoHa, [dir |-> TRUE, name |-> NoFile],
          [dir |-> TRUE, name |-> SasAddress]}

HaFew == {NoHa, [dir |-> TRUE, name |-> SasAddress]}

\* the device link of the host and the FireWire host's host_id/guid
NoLink == [link |-> NoFile, guid |-> NoFile]

FwAll == {NoLink, [link |-> PciLink, guid |-> NoFile],
          [link |-> FwLinkEnd, guid |-> Guid],
          [link |-> FwLink, guid |-> NoFile],
          [link |-> FwLink, guid |-> ShortGuid],
          [link |-> FwLink, guid |-> Guid]}

FwFew == {NoLink, [link |-> PciLink, guid |-> NoFile]}

ProcAll == {NoFile, File(Ahci), File(<<"s", "a", "t", "a", "_", "n",
        "v">>), File(<<"p", "a", "t", "a", "_", "v", "i", "a">>),
            File(<<"u", "f", "s", "h", "c", "d">>)}

ProcFew == {NoFile, File(Ahci)}

\* the choices for each probe in turn: every one, and the fewest that
\* leave the probe matching or not
ProbeAll == <<BOOLEAN, FcAll, SrpAll, SasAll, HaAll, FwAll, BOOLEAN,
              {NoFile, PciPath, UsbPath}, ProcAll>>

ProbeFew == <<BOOLEAN, FcFew, SrpFew, SasFew, HaFew, FwFew, BOOLEAN,
              {NoFile, UsbPath}, ProcFew>>

Choices(p, i) == IF p = i THEN ProbeAll[p] ELSE ProbeFew[p]

\* the pseudo-tree of a host, as far as transport_init() looks at it
HostTree(spi, fc, srp, sas, ha, fw, iscsi, path, proc) ==
    [spi_host |-> spi,
     fc_host |-> fc.dir, symbolic_name |-> fc.sym, port_name |-> fc.ptn,
     port_id |-> fc.pid,
     srp_host |-> srp.dir, srp_gid |-> srp.gid,
     sas_host |-> sas.dir, phys |-> sas.phys, sas_address |-> sas.ad,
     sas_ha |-> ha.dir, device_name |-> ha.name,
     device |-> fw.link, guid |-> fw.guid,
     iscsi_host |-> iscsi,
     realpath |-> path,
     proc_name |-> proc]

\* the trees that take every choice at probe i
HostTrees(i) ==
    {HostTree(spi, fc, srp, sas, ha, fw, iscsi, path, proc) :
        spi \in Choices(1, i), fc \in Choices(2, i), srp \in Choices(3, i),
        sas \in Choices(4, i), ha \in Choices(5, i), fw \in Choices(6, i),
        iscsi \in Choices(7, i), path \in Choices(8, i),
        proc \in Choices(9, i)}

\* what the stack may hold behind the link readlink() wrote to buff2
StackTexts == {<<>>, <<"/", "x">>}

\* room left in o[] behind "[0]" and the driver name
SummaryLen == O_LEN - 21

TransportInputs ==
    {<<HostName(0), h, vb, st>> :
        h \in UNION {HostTrees(i) : i \in 1..9}, vb \in BOOLEAN,
        st \in StackTexts}
    \cup {<<HostText \o <<"x">>, h, FALSE, <<>>>> : h \in HostTrees(3)}

\* list_shosts() has set transport_id = TRANSPORT_UNKNOWN, and
\* one_shost_entry() hands over the end of the line it has written
TransportInit ==
    /\ MainIdle
    /\ codec = [pc |-> "idle"]
    /\ cmp = [pc |-> "idle"]
    /\ \E i \in TransportInputs :
           call = [pc |-> "transport_init", devname |-> i[1], h |-> i[2],
                   vb |-> i[3], stack |-> i[4],
                   r |-> Left(FALSE, TRANSPORT_UNKNOWN, <<>>, <<>>, <<>>)]

TransportCall ==
    /\ call.pc = "transport_init"
    /\ call' = [call EXCEPT
                   !.pc = "transport_done",
                   !.r = transport_init(call.devname, call.h, SummaryLen,
                                        call.vb, call.r.transport_id,
                                        call.r.b, call.stack)]
    /\ UNCHANGED <<mainvars, codec, cmp>>

TransportNext == TransportCall

SpecTransport == TransportInit /\ [][TransportNext]_vars

-----------------------------------------------------------------------------
(* C14: the order of the probes of transport_init() *)

ProbeOrder == <<"spi", "fc", "srp", "sas", "sas_class", "sbp", "iscsi",
                "usb", "ata">>

\* the pseudo-path of a probe has the shape the probe looks for
ShapeMatches(h, p) ==
    CASE p = "spi" -> h.spi_host
      [] p = "fc" -> h.fc_host
      [] p = "srp" -> h.srp_host
      [] p = "sas" -> h.sas_host
      [] p = "sas_class" -> h.sas_ha
      [] p = "sbp" -> h.device.ok /\ Contains(h.device.value, FwHost)
      [] p = "iscsi" -> h.iscsi_host
      [] p = "usb" -> h.realpath.ok /\ Contains(h.realpath.value, Usb)
      [] p = "ata" -> /\ h.proc_name.ok
                      /\ \/ h.proc_name.value = Ahci
                         \/ Contains(h.proc_name.value, Ata)

\* the transport kinds a probe sets
ProbeKinds(p) ==
    CASE p = "spi" -> {TRANSPORT_SPI}
      [] p = "fc" -> {TRANSPORT_FC, TRANSPORT_FCOE}
      [] p = "srp" -> {TRANSPORT_SRP}
      [] p = "sas" -> {TRANSPORT_SAS}
      [] p = "sas_class" -> {TRANSPORT_SAS_CLASS}
      [] p = "sbp" -> {TRANSPORT_SBP}
      [] p = "iscsi" -> {TRANSPORT_ISCSI}
      [] p = "usb" -> {TRANSPORT_USB}
      [] p = "ata" -> {TRANSPORT_ATA, TRANSPORT_SATA}

\* the summary prefix of a transport kind
KindText(id) ==
    CASE id = TRANSPORT_SPI -> SpiText
      [] id = TRANSPORT_FC -> FcText
      [] id = TRANSPORT_FCOE -> FcoeText
      [] id = TRANSPORT_SRP -> SrpText
      [] id = TRANSPORT_SAS -> SasText
      [] id = TRANSPORT_SAS_CLASS -> SasText
      [] id = TRANSPORT_SBP -> SbpText
      [] id = TRANSPORT_ISCSI -> IscsiText
      [] id = TRANSPORT_USB -> UsbText
      [] id = TRANSPORT_ATA -> AtaText
      [] id = TRANSPORT_SATA -> SataText

\* the SBP probe finds the FireWire host's directory behind "/fw-host" and
\* reads an 18-character host_id/guid there
SbpComplete ==
    /\ ShapeMatches(call.h, "sbp")
    /\ StrChr(From(call.h.device.value \o call.stack,
                   StrStr(call.h.device.value, FwHost) + 1), "/") > 0
    /\ call.h.guid.ok /\ Len(call.h.guid.value) = 18

\* the position in ProbeOrder of the first probe for which Decides holds,
\* or 0
FirstProbe(Decides(_)) ==
    IF \E i \in 1..9 : Decides(ProbeOrder[i])
    THEN CHOOSE i \in 1..9 :
             /\ Decides(ProbeOrder[i])
             /\ \A m \in 1..(i - 1) : ~Decides(ProbeOrder[m])
    ELSE 0

\* the call went through the probes in order up to the i-th, which alone
\* set the transport kind and the summary; with i = 0 it went through them
\* all, and none that matched wrote a summary
DecidedBy(i) ==
    /\ call.r.probes = SubSeq(ProbeOrder, 1, IF i = 0 THEN 9 ELSE i)
    /\ i > 0 => /\ call.r.transport_id \in ProbeKinds(ProbeOrder[i])
                /\ HasPrefix(call.r.b, KindText(call.r.transport_id))
    /\ i = 0 => ~call.r.ret /\ call.r.b = <<>>

MatchesShape(p) == ShapeMatches(call.h, p)

MatchesAndCompletes(p) ==
    ShapeMatches(call.h, p) /\ (p = "sbp" => SbpComplete)

\* C14 as stated: transport_init probes in the fixed order SPI, FC/FCoE,
\* SRP, SAS (transport class), SAS (legacy class), SBP, iSCSI, USB,
\* ATA/SATA, and the first probe whose shape matches decides: no later
\* probe is consulted, and none sets the transport kind or the summary.
C14_FirstMatch_Original ==
    call.pc = "transport_done" => DecidedBy(FirstProbe(MatchesShape))

\* C14 amended: the same, but for the SBP probe, which decides only when it
\* also reads the FireWire host's 18-character guid; otherwise it sets the
\* transport kind SBP and the iSCSI, USB and ATA/SATA probes are consulted
\* as if it had not matched, and if none of them matches the call returns
\* false with the kind SBP and no summary.
C14_FirstMatch ==
    call.pc = "transport_done" =>
        /\ DecidedBy(FirstProbe(MatchesAndCompletes))
        /\ FirstProbe(MatchesAndCompletes) = 0 =>
               call.r.transport_id =
                   IF MatchesShape("sbp") THEN TRANSPORT_SBP
                   ELSE TRANSPORT_UNKNOWN

\* an FC host that also has an iSCSI directory and the ahci driver: the FC
\* probe decided and nothing after it was consulted
C14_Witness ==
    /\ call.pc = "transport_done"
    /\ ~call.h.spi_host /\ call.h.fc_host
    /\ call.h.iscsi_host /\ call.h.proc_name = File(Ahci)
    /\ call.r.ret
    /\ call.r.transport_id = TRANSPORT_FC
    /\ call.r.probes = <<"spi", "fc">>

-----------------------------------------------------------------------------
(* C15: FCoE and SPI hosts *)

\* the tree holds nothing but what the given tree holds
NoOtherThan(h) == call.pc = "transport_done" /\ call.h = h

OnlyFcoe ==
    HostTree(FALSE, [dir |-> TRUE, sym |-> OverName, ptn |-> NoFile,
                     pid |-> NoFile],
             NoSrp, NoSas, NoHa, NoLink, FALSE, NoFile, NoFile)

OnlySpi ==
    HostTree(TRUE, NoFc, NoSrp, NoSas, NoHa, NoLink, FALSE, NoFile, NoFile)

\* C15: transport_init against a pseudo-tree containing only
\* class/fc_host/hostN/symbolic_name whose value contains " over " gives
\* FCoE (transport kind FCoE, summary prefix "fcoe:"), not FC; against a
\* tree containing only class/spi_host/hostN it gives "spi:" with transport
\* kind SPI.
C15_FcoeAndSpi ==
    /\ NoOtherThan(OnlyFcoe) =>
           /\ call.r.transport_id = TRANSPORT_FCOE
           /\ HasPrefix(call.r.b, FcoeText)
    /\ NoOtherThan(OnlySpi) =>
           /\ call.r.ret
           /\ call.r.transport_id = TRANSPORT_SPI
           /\ call.r.b = SpiText

\* the call on the tree with only the FCoE symbolic_name has left "fcoe:"
C15_Witness ==
    /\ NoOtherThan(OnlyFcoe)
    /\ call.r.transport_id = TRANSPORT_FCOE
    /\ call.r.b = FcoeText

-----------------------------------------------------------------------------
(* C16: an FC host without port_name *)

\* C16: when the fc_host directory of a host exists (and the SPI probe,
\* which comes first, has not matched) but its port_name attribute is
\* missing, transport_init returns false and does not fall through to the
\* SRP, SAS, SBP, iSCSI, USB or ATA probes.
C16_NoPortName ==
    (/\ call.pc = "transport_done"
     /\ ~call.h.spi_host /\ call.h.fc_host
     /\ ~call.h.port_name.ok) =>
        /\ ~call.r.ret
        /\ call.r.probes = <<"spi", "fc">>
        /\ call.r.transport_id \in {TRANSPORT_FC, TRANSPORT_FCOE}

\* an FC host without port_name that is also an iSCSI host with the ahci
\* driver: the call returned false with "fc:" and went no further
C16_Witness ==
    /\ call.pc = "transport_done"
    /\ ~call.h.spi_host /\ call.h.fc_host
    /\ ~call.h.port_name.ok /\ call.h.port_id.ok
    /\ call.h.iscsi_host /\ call.h.proc_name = File(Ahci)
    /\ ~call.r.ret
    /\ call.r.b = FcText
    /\ call.r.probes = <<"spi", "fc">>

-----------------------------------------------------------------------------
(* Parse harness: one call of parse_colon_list() *)

\* most c<digits>, n<digits>, p<digits> pieces behind "nvme<minor>"
MaxSegs == 3

\* a piece of an NVMe name: a letter and the number after it; 'x' is a
\* letter parse_colon_list() does not know
NvmeSegs ==
    {[letter |-> a, digits |-> d] : a \in {"c", "n", "p", "x"}, d \in {0, 3}}

RECURSIVE SegsText(_)
SegsText(segs) ==
    IF segs = <<>> THEN <<>>
    ELSE <<segs[1].letter>> \o Fmt_d(segs[1].digits) \o SegsText(Tail(segs))

\* the fields of the texts that are not NVMe names: integers, an empty
\* field, fields with no digit, and an integer with a letter after it
FieldTexts == {<<"0">>, <<"1", "2">>, <<>>, <<"x">>, <<"1", "x">>, <<"-">>}

\* what *outp holds at the call: what invalidate_hctl() left, or other
\* values
PriorTuples ==
    {invalidate_hctl,
     [invalidate_hctl EXCEPT !.h = 1, !.c = 1, !.t = 1, !.l = U64OfNat(1)]}

ParseInputs ==
    {[form |-> "nvme", s |-> CtlName(m) \o SegsText(g), minor |-> m,
      segs |-> g, prior |-> p] :
        m \in 0..1, g \in UNION {[1..n -> NvmeSegs] : n \in 0..MaxSegs},
        p \in PriorTuples}
    \cup
    {[form |-> "hctl", s |-> JoinColon(f), minor |-> 0, segs |-> <<>>,
      prior |-> p] :
        f \in UNION {[1..n -> FieldTexts] : n \in 1..4}, p \in PriorTuples}
    \cup
    {[form |-> "hctl", s |-> JoinColon(f \o <<e>>), minor |-> 0,
      segs |-> <<>>, prior |-> invalidate_hctl] :
        f \in [1..4 -> {<<"0">>, <<"1", "2">>}], e \in FieldTexts}

ParseInit ==
    /\ MainIdle
    /\ codec = [pc |-> "idle"]
    /\ cmp = [pc |-> "idle"]
    /\ \E i \in ParseInputs :
           call = [pc |-> "parse_colon_list", form |-> i.form, s |-> i.s,
                   minor |-> i.minor, segs |-> i.segs, prior |-> i.prior,
                   r |-> [ok |-> FALSE, v |-> i.prior]]

ParseCall ==
    /\ call.pc = "parse_colon_list"
    /\ call' = [call EXCEPT !.pc = "parse_done",
                            !.r = parse_colon_list(call.s, call.prior)]
    /\ UNCHANGED <<mainvars, codec, cmp>>

ParseNext == ParseCall

SpecParse == ParseInit /\ [][ParseNext]_vars

-----------------------------------------------------------------------------
(* C17: NVMe names *)

\* the pieces in front of the first letter that is not c, n or p
RECURSIVE Recognized(_)
Recognized(segs) ==
    IF segs = <<>> \/ segs[1].letter = "x" THEN <<>>
    ELSE <<segs[1]>> \o Recognized(Tail(segs))

\* the position of the last piece with the letter a, or 0
LastOf(segs, a) ==
    IF \E i \in 1..Len(segs) : segs[i].letter = a
    THEN CHOOSE i \in 1..Len(segs) :
             /\ segs[i].letter = a
             /\ \A m \in (i + 1)..Len(segs) : segs[m].letter # a
    ELSE 0

\* the tuple C17 expects of the pieces e
NvmeExpected(e, ic, in) ==
    /\ call.r.ok
    /\ call.r.v.h = NVME_HOST_NUM
    /\ call.r.v.c = call.minor
    /\ call.r.v.t = IF ic > 0 THEN e[ic].digits + 1 ELSE call.prior.t
    /\ call.r.v.l = IF in > 0 THEN U64OfNat(e[in].digits) ELSE call.prior.l

\* C17: parse_colon_list on nvme<minor> followed by any sequence of
\* c<digits>, n<digits>, p<digits> in any order succeeds with host = NVMe
\* sentinel, channel = minor, target = (digits after c) + 1 and lun =
\* digits after n; a field whose letter is absent keeps the value the
\* tuple held before the call, and parsing stops at the first unrecognized
\* character.
C17_NvmeName ==
    (call.pc = "parse_done" /\ call.form = "nvme") =>
        NvmeExpected(Recognized(call.segs),
                     LastOf(Recognized(call.segs), "c"),
                     LastOf(Recognized(call.segs), "n"))

-----------------------------------------------------------------------------
(* C18: h:c:t:l texts *)

\* a decimal integer
IsDecimal(f) == f # <<>> /\ \A i \in 1..Len(f) : IsDigit(f[i])

\* the text consists of exactly four colon-separated integer fields
FourIntegers(s) ==
    /\ Len(ColonFields(s)) = 4
    /\ \A i \in 1..4 : IsDecimal(ColonFields(s)[i])

\* the text has at least four colon-separated fields and each of the first
\* four begins with an integer
FourLeadingIntegers(s) ==
    /\ Len(ColonFields(s)) >= 4
    /\ \A i \in 1..4 : ~NoLeadingInteger(ColonFields(s)[i])

\* C18 as stated: for input not in the NVMe form, parse_colon_list succeeds
\* only when the text consists of exactly four colon-separated integer
\* fields host:channel:target:lun; it returns failure whenever any field
\* is missing or non-numeric.
C18_FourFields_Original ==
    (call.pc = "parse_done" /\ call.form = "hctl") =>
        (call.r.ok <=> FourIntegers(call.s))

\* C18 amended: it succeeds exactly when the text has four colon-separated
\* fields that each begin with an integer; what follows the integer in a
\* field, and what follows the fourth integer, is ignored.
C18_FourFields ==
    (call.pc = "parse_done" /\ call.form = "hctl") =>
        (call.r.ok <=> FourLeadingIntegers(call.s))

\* "12:0:1x:0" was taken as 12:0:1:0
C18_Witness ==
    /\ call.pc = "parse_done"
    /\ call.s = JoinColon(<<<<"1", "2">>, <<"0">>, <<"1", "x">>, <<"0">>>>)
    /\ call.prior = invalidate_hctl
    /\ call.r.ok
    /\ call.r.v.h = 12 /\ call.r.v.c = 0 /\ call.r.v.t = 1
    /\ call.r.v.l = U64Zero

-----------------------------------------------------------------------------
(* LUN harness: tag_lun() on an 8-byte LUN, then tuple2string() with -x *)

\* 2-byte units of a LUN: peripheral device addressing without (00 05,
\* 00 33, 00 00) and with (01 22) a bus identifier, flat space (40 01),
\* logical unit (80 01), and extended addressing with each length and
\* with the extended addressing methods the code names (c1, d2, e2, ff)
\* and others (c0, d0, e0, f0)
LunUnits ==
    {<<0, 5>>, <<0, 51>>, <<0, 0>>, <<1, 34>>, <<64, 1>>, <<128, 1>>,
     <<193, 0>>, <<210, 0>>, <<226, 0>>, <<255, 255>>, <<255, 0>>,
     <<192, 0>>, <<208, 0>>, <<224, 0>>, <<240, 0>>}

LunUnitsFew ==
    {<<0, 0>>, <<1, 34>>, <<64, 1>>, <<210, 0>>, <<226, 0>>, <<240, 0>>,
     <<255, 255>>}

LunInputs ==
    {u0 \o u1 \o u2 \o u3 :
        u0 \in LunUnits, u1 \in LunUnits, u2 \in LunUnitsFew,
        u3 \in LunUnitsFew}

\* the tuple of a device with LUN bytes lunp
LunTuple(lunp) ==
    [invalidate_hctl EXCEPT !.h = 0, !.c = 0, !.t = 0, !.lun_arr = lunp]

LunInit ==
    /\ MainIdle
    /\ codec = [pc |-> "idle"]
    /\ cmp = [pc |-> "idle"]
    /\ \E lunp \in LunInputs :
           call = [pc |-> "tag_lun", lunp |-> lunp,
                   tag_arr |-> [i \in 0..15 |-> 0], str |-> <<>>]

\* tag_lun(tp->lun_arr, tag_arr)
LunTag ==
    /\ call.pc = "tag_lun"
    /\ call' = [call EXCEPT !.pc = "tuple2string",
                            !.tag_arr = tag_lun(call.lunp)]
    /\ UNCHANGED <<mainvars, codec, cmp>>

\* tuple2string(tp, 0x11, blen, b): the LUN alone, in --lunhex form
LunRender ==
    /\ call.pc = "tuple2string"
    /\ call' = [call EXCEPT !.pc = "lun_done",
                            !.str = tuple2string(LunTuple(call.lunp), 17,
                                                 ELEN)]
    /\ UNCHANGED <<mainvars, codec, cmp>>

LunNext == LunTag \/ LunRender

SpecLun == LunInit /\ [][LunNext]_vars

-----------------------------------------------------------------------------
(* C19: LUNs with addressing methods 0, 1 and 2 *)

\* the first byte of the unit at level lev, its addressing method and the
\* fields of the byte
UnitByte(lev) == call.lunp[(2 * lev) + 1]

Method(lev) == UnitByte(lev) \div 64

LowSix(lev) == UnitByte(lev) % 64

LengthField(lev) == (UnitByte(lev) % 64) \div 16

ExtendedMethod(lev) == UnitByte(lev) % 16

\* tag_lun() has run
Tagged == call.pc \in {"tuple2string", "lun_done"}

\* the first eight tags
Tags == [i \in 1..8 |-> call.tag_arr[i - 1]]

\* level lev comes after method-0 units with non-zero low 6 bits only
Proceeds(lev) == \A m \in 0..(lev - 1) : Method(m) = 0 /\ LowSix(m) # 0

\* C19: for an 8-byte LUN whose levels use only addressing methods 0, 1 or
\* 2, tag_lun tags exactly one 2-byte unit per level and proceeds to the
\* next level only after a method-0 unit whose low 6 bits are non-zero; the
\* first unit is tagged 1,1, every later tagged unit 2,1 and all remaining
\* positions 0; a LUN starting ff ff is tagged [1,1,0,0,0,0,0,0]; 00 05
\* 00.. gives [1,1,0,0,0,0,0,0] and 01 22 00 33 00.. gives
\* [1,1,2,1,0,0,0,0], rendered by tuple2string with --lunhex as
\* 0x0122_0033.
C19_TagLevels ==
    /\ (Tagged /\ \A lev \in 0..3 : Method(lev) < 3) =>
           /\ \A lev \in 0..3 :
                  /\ call.tag_arr[2 * lev] =
                         IF ~Proceeds(lev) THEN 0
                         ELSE IF lev = 0 THEN 1 ELSE 2
                  /\ call.tag_arr[(2 * lev) + 1] =
                         IF Proceeds(lev) THEN 1 ELSE 0
           /\ \A i \in 8..15 : call.tag_arr[i] = 0
    /\ (Tagged /\ call.lunp[1] = 255 /\ call.lunp[2] = 255) =>
           Tags = <<1, 1, 0, 0, 0, 0, 0, 0>>
    /\ (Tagged /\ call.lunp = <<0, 5, 0, 0, 0, 0, 0, 0>>) =>
           Tags = <<1, 1, 0, 0, 0, 0, 0, 0>>
    /\ (Tagged /\ call.lunp = <<1, 34, 0, 51, 0, 0, 0, 0>>) =>
           Tags = <<1, 1, 2, 1, 0, 0, 0, 0>>
    /\ (call.pc = "lun_done" /\ call.lunp = <<1, 34, 0, 51, 0, 0, 0, 0>>) =>
           call.str = <<"0", "x", "0", "1", "2", "2", "_", "0", "0", "3",
        "3">>

\* 01 22 00 33 00 00 00 00 was tagged 1,1,2,1 and rendered 0x0122_0033
C19_Witness ==
    /\ call.pc = "lun_done"
    /\ call.lunp = <<1, 34, 0, 51, 0, 0, 0, 0>>
    /\ Tags = <<1, 1, 2, 1, 0, 0, 0, 0>>
    /\ call.str = <<"0", "x", "0", "1", "2", "2", "_", "0", "0", "3", "3">>

-----------------------------------------------------------------------------
(* C20: LUNs with the extended addressing method *)

\* positions from up to the one before to hold one descriptor: the tag of
\* a first byte, then 1s
OneDescriptor(lev, to) ==
    /\ call.tag_arr[2 * lev] = IF lev = 0 THEN 1 ELSE 2
    /\ \A i \in ((2 * lev) + 1)..(to - 1) : call.tag_arr[i] = 1

\* C20: for a level using addressing method 3 (extended), tag_lun uses the
\* 2-bit length field and the 4-bit extended-addressing-method field to tag
\* a descriptor of the first 2-byte unit and up to 3 further ones, and in
\* the reserved case length = 3 with extended method 0xf it tags every
\* byte from that level to the end of the LUN as one descriptor; the
\* produced tags always lie within the 8-element tag array.
C20_ExtendedLevels ==
    \A lev \in 0..3 :
        (/\ Tagged
         /\ ~(call.lunp[1] = 255 /\ call.lunp[2] = 255)
         /\ Proceeds(lev) /\ Method(lev) = 3) =>
            /\ \E n \in {2, 4, 6, 8} :
                   /\ OneDescriptor(lev, (2 * lev) + n)
                   /\ \A i \in ((2 * lev) + n)..15 : call.tag_arr[i] = 0
            /\ (LengthField(lev) = 3 /\ ExtendedMethod(lev) = 15) =>
                   OneDescriptor(lev, 8)
            /\ \A i \in 8..15 : call.tag_arr[i] = 0

-----------------------------------------------------------------------------
(* get_lu_name(): the logical unit name from the Device Identification page *)

VPD_DEVICE_ID == 131

VPD_ASSOC_LU == 0

VPD_ASSOC_TPORT == 1

TPROTO_ISCSI == 5

\* the characters of the bytes 0x20 .. 0x7e; "?" stands for the double
\* quote, the backslash and the grave accent
Printable ==
    <<
      " ", "!", "?", "#", "$", "%", "&", "'", "(", ")",
      "*", "+", ",", "-", ".", "/", "0", "1", "2", "3",
      "4", "5", "6", "7", "8", "9", ":", ";", "<", "=",
      ">", "?", "@", "A", "B", "C", "D", "E", "F", "G",
      "H", "I", "J", "K", "L", "M", "N", "O", "P", "Q",
      "R", "S", "T", "U", "V", "W", "X", "Y", "Z", "[",
      "?", "]", "^", "_", "?", "a", "b", "c", "d", "e",
      "f", "g", "h", "i", "j", "k", "l", "m", "n", "o",
      "p", "q", "r", "s", "t", "u", "v", "w", "x", "y",
      "z", "{", "|", "}", "~" >>

\* the character a byte of a string holds
Chr(b) == IF b >= 32 /\ b <= 126 THEN Printable[b - 31] ELSE "?"

\* bp[i]: bytes past the ones read are what the stack array held before
ByteAt(bp, i, stack) == IF i < Len(bp) THEN bp[i + 1] ELSE stack

\* an advance by the header alone, the designator length left out
IterAdvance_header_only(bp, kk) == IF kk < 0 THEN 0 ELSE kk + 4

\* k = (k < 0) ? 0 : (k + bp[k + 3] + 4)
IterAdvance(bp, kk) == IF kk < 0 THEN 0 ELSE kk + bp[kk + 4] + 4

\* the three tests of code set, association and designator type at bp + k
IterMatches(bp, kk, m_assoc, m_desig_type, m_code_set) ==
    /\ m_code_set < 0 \/ m_code_set = bp[kk + 1] % 16
    /\ m_assoc < 0 \/ m_assoc = (bp[kk + 2] \div 16) % 4
    /\ m_desig_type < 0 \/ m_desig_type = bp[kk + 2] % 16

RECURSIVE IterLoop(_, _, _, _, _, _)
RECURSIVE IterBody(_, _, _, _, _, _)
\* the for loop of sg_vpd_dev_id_iter() from its test on: found, and k
IterLoop(bp, page_len, kk, m_assoc, m_desig_type, m_code_set) ==
    IF (kk + 3) < page_len
    THEN IterBody(bp, page_len, IterAdvance(bp, kk), m_assoc, m_desig_type,
                  m_code_set)
    ELSE [found |-> FALSE, k |-> kk]

\* the body of the loop after k was advanced
IterBody(bp, page_len, kk, m_assoc, m_desig_type, m_code_set) ==
    IF (kk + 4) > page_len THEN [found |-> FALSE, k |-> kk]
    ELSE IF IterMatches(bp, kk, m_assoc, m_desig_type, m_code_set)
    THEN [found |-> TRUE, k |-> kk]
    ELSE IterLoop(bp, page_len, kk, m_assoc, m_desig_type, m_code_set)

\* what sg_vpd_dev_id_iter() returns and leaves in *off
IterReturn(loop, page_len, off) ==
    IF loop.found THEN [r |-> 0, off |-> loop.k]
    ELSE [r |-> IF loop.k = page_len THEN -1 ELSE -2, off |-> off]

sg_vpd_dev_id_iter(bp, page_len, off, m_assoc, m_desig_type, m_code_set) ==
    IterReturn(IterLoop(bp, page_len, off, m_assoc, m_desig_type,
                        m_code_set), page_len, off)

\* bytes bp[from .. from + n - 1]
BytesAt(bp, from, n, stack) == [i \in 1..n |-> ByteAt(bp, from + i - 1,
        stack)]

\* "%.*s": the characters of at most Len(bytes) bytes, up to a NUL
RECURSIVE StrN(_)
StrN(bytes) ==
    IF bytes = <<>> \/ bytes[1] = 0 THEN <<>>
    ELSE <<Chr(bytes[1])>> \o StrN(Tail(bytes))

\* the "%02x" loop over bytes
RECURSIVE HexBytes(_)
HexBytes(bytes) ==
    IF bytes = <<>> THEN <<>> ELSE Hex2(bytes[1]) \o HexBytes(Tail(bytes))

\* the 16 bytes of a UUID with "-" before bytes 4, 6, 8 and 10
UuidText(bytes) ==
    HexBytes(SubSeq(bytes, 1, 4)) \o <<"-">> \o
    HexBytes(SubSeq(bytes, 5, 6)) \o <<"-">> \o
    HexBytes(SubSeq(bytes, 7, 8)) \o <<"-">> \o
    HexBytes(SubSeq(bytes, 9, 10)) \o <<"-">> \o
    HexBytes(SubSeq(bytes, 11, 16))

NaaPrefix == <<"n", "a", "a", ".">>

EuiPrefix == <<"e", "u", "i", ".">>

UuidPrefix == <<"u", "u", "i", "d", ".">>

T10Prefix == <<"t", "1", "0", ".">>

Prefixed(want_prefix, prefix, text) ==
    IF want_prefix THEN prefix \o text ELSE text

\* the NAA branch, off being where the designator was found
LuNameNaa(bp, b_len, want_prefix, stack, off) ==
    IF bp[off + 4] \notin {8, 16} THEN <<>>
    ELSE Truncated(Prefixed(want_prefix, NaaPrefix,
                       HexBytes(BytesAt(bp, off + 4, bp[off + 4], stack))),
                   b_len)

\* the EUI branch
LuNameEui(bp, b_len, want_prefix, stack, off) ==
    IF bp[off + 4] \notin {8, 12, 16} THEN <<>>
    ELSE Truncated(Prefixed(want_prefix, EuiPrefix,
                       HexBytes(BytesAt(bp, off + 4, bp[off + 4], stack))),
                   b_len)

\* a UUID branch that leaves the name empty for an unsupported designator
LuNameUuid_empty_when_unsupported(bp, b_len, want_prefix, stack, off) ==
    IF ByteAt(bp, off + 4, stack) \div 16 # 1 \/ bp[off + 4] # 18
    THEN <<>>
    ELSE Truncated(Prefixed(want_prefix, UuidPrefix,
                       UuidText(BytesAt(bp, off + 6, 16, stack))), b_len)

\* the UUID branch
LuNameUuid(bp, b_len, want_prefix, stack, off) ==
    IF ByteAt(bp, off + 4, stack) \div 16 # 1 \/ bp[off + 4] # 18
    THEN Truncated(<<"?", "?">>, b_len)
    ELSE Truncated(Prefixed(want_prefix, UuidPrefix,
                       UuidText(BytesAt(bp, off + 6, 16, stack))), b_len)

\* the T10 vendor ID branch
LuNameT10(bp, b_len, want_prefix, stack, found) ==
    IF ~(found.r = 0 /\ bp[found.off + 1] % 16 > 1) THEN <<>>
    ELSE IF bp[found.off + 4] < 8 THEN <<>>
    ELSE Truncated(Prefixed(want_prefix, T10Prefix,
                       StrN(BytesAt(bp, found.off + 4, bp[found.off + 4],
                                    stack))), b_len)

\* the chain of searches from line 1949 on; none of them resets off, and a
\* search that fails leaves it as it was
LuNameRest(bp, b_len, want_prefix, stack, u_sns, off) ==
    IF sg_vpd_dev_id_iter(bp, Len(bp), off, VPD_ASSOC_LU, 3, 1).r = 0
    THEN LuNameNaa(bp, b_len, want_prefix, stack,
             sg_vpd_dev_id_iter(bp, Len(bp), off, VPD_ASSOC_LU, 3, 1).off)
    ELSE IF sg_vpd_dev_id_iter(bp, Len(bp), off, VPD_ASSOC_LU, 2, 1).r = 0
    THEN LuNameEui(bp, b_len, want_prefix, stack,
             sg_vpd_dev_id_iter(bp, Len(bp), off, VPD_ASSOC_LU, 2, 1).off)
    ELSE IF sg_vpd_dev_id_iter(bp, Len(bp), off, VPD_ASSOC_LU, 10, 1).r = 0
    THEN LuNameUuid(bp, b_len, want_prefix, stack,
             sg_vpd_dev_id_iter(bp, Len(bp), off, VPD_ASSOC_LU, 10, 1).off)
    ELSE IF Len(u_sns) > 0 THEN Truncated(StrN(u_sns), b_len)
    ELSE LuNameT10(bp, b_len, want_prefix, stack,
             sg_vpd_dev_id_iter(bp, Len(bp), off, VPD_ASSOC_LU, 1, -1))

\* after the SCSI name string of the logical unit was copied to u_sns: the
\* search for one of the target port; the test for iSCSI reads bp[0] and
\* bp[1], the header of the first designator of the page
LuNameTport(bp, b_len, want_prefix, stack, u_sns, found) ==
    IF found.r = 0 /\ bp[2] >= 128 /\ bp[1] \div 16 = TPROTO_ISCSI
    THEN Truncated(StrN(u_sns), b_len)
    ELSE LuNameRest(bp, b_len, want_prefix, stack, u_sns, found.off)

\* the first search, for a SCSI name string of the logical unit
LuNameSns(bp, b_len, want_prefix, stack, found) ==
    IF found.r = 0
    THEN LuNameTport(bp, b_len, want_prefix, stack,
             BytesAt(bp, found.off + 4, bp[found.off + 4], stack),
             sg_vpd_dev_id_iter(bp, Len(bp), -1, VPD_ASSOC_TPORT, 8, 3))
    ELSE LuNameRest(bp, b_len, want_prefix, stack, <<>>, found.off)

\* get_lu_name(devname, b, b_len, want_prefix): file is vpd_pg83 of the
\* device (NoFile when stat() or open() fails), its value the bytes that
\* read() returned; b is what the buffer held; the text left in b
get_lu_name(file, b, b_len, want_prefix, stack) ==
    IF b_len < 1 THEN b
    ELSE IF ~file.ok \/ Len(file.value) <= 8 THEN <<>>
    ELSE IF file.value[2] # VPD_DEVICE_ID THEN <<>>
    ELSE IF (file.value[3] * 256) + file.value[4] + 4 # Len(file.value)
    THEN <<>>
    ELSE LuNameSns(SubSeq(file.value, 5, Len(file.value)), b_len,
             want_prefix, stack,
             sg_vpd_dev_id_iter(SubSeq(file.value, 5, Len(file.value)),
                 Len(file.value) - 4, -1, VPD_ASSOC_LU, 8, 3))

-----------------------------------------------------------------------------
(* get_lu_name() harness: one call on a vpd_pg83 file *)

\* designators: NAA of 8 and of 4 bytes, EUI-64, UUID of sub-type 1 and
\* a 2-byte one of sub-type 2, SCSI name strings of the logical unit
\* ("iqn") and of an iSCSI and a Fibre Channel target port ("tp"), T10
\* vendor ID of 8 and of 4 bytes, relative target port (plain and with
\* the iSCSI protocol identifier)
NaaLu == <<1, 3, 0, 8, 80, 1, 2, 3, 4, 5, 6, 7>>

NaaShort == <<1, 3, 0, 4, 80, 1, 2, 3>>

EuiLu == <<1, 2, 0, 8, 0, 17, 34, 51, 68, 85, 102, 119>>

UuidLu ==
    <<1, 10, 0, 18, 16, 0, 0, 1, 2, 3, 4, 5, 6, 7, 8, 9, 10, 11, 12, 13,
      14, 15>>

UuidOther == <<1, 10, 0, 2, 32, 0>>

SnsLu == <<3, 8, 0, 4, 105, 113, 110, 0>>

SnsTportIscsi == <<83, 152, 0, 4, 116, 112, 0, 0>>

SnsTportFc == <<3, 152, 0, 4, 116, 112, 0, 0>>

T10Lu == <<2, 1, 0, 8, 108, 115, 115, 99, 115, 105, 48, 49>>

T10Short == <<2, 1, 0, 4, 108, 115, 115, 99>>

RelPort == <<1, 20, 0, 4, 0, 0, 0, 1>>

RelPortIscsi == <<81, 148, 0, 4, 0, 0, 0, 1>>

Designators ==
    {NaaLu, NaaShort, EuiLu, UuidLu, UuidOther, SnsLu, SnsTportIscsi,
     SnsTportFc, T10Lu, T10Short, RelPort, RelPortIscsi}

\* a page with page code code and the designators descs
VpdPage(code, descs) ==
    <<0, code, Len(descs) \div 256, Len(descs) % 256>> \o descs

DesigLists ==
    {<<>>} \cup {d1 : d1 \in Designators}
           \cup {d1 \o d2 : d1 \in Designators, d2 \in Designators}
           \cup {d1 \o d2 \o d3 : d1 \in Designators, d2 \in Designators,
                                  d3 \in Designators}

\* files: absent, whole pages, pages of another page code, pages whose last
\* two bytes were not read, pages with a length that counts two bytes more
VpdFiles ==
    {NoFile} \cup {File(VpdPage(VPD_DEVICE_ID, d)) : d \in DesigLists}
             \cup {File(VpdPage(128, d)) : d \in Designators}
             \cup {File(SubSeq(VpdPage(VPD_DEVICE_ID, d), 1, Len(d) + 2)) :
                      d \in Designators}
             \cup {File(VpdPage(VPD_DEVICE_ID, SubSeq(d, 1, Len(d) - 2))) :
                      d \in Designators}
             \cup {File(<<0, VPD_DEVICE_ID, 0, Len(d) + 2>> \o d) :
                      d \in Designators}

LuNameInit ==
    /\ MainIdle
    /\ codec = [pc |-> "idle"]
    /\ cmp = [pc |-> "idle"]
    /\ \E file \in VpdFiles, b_len \in {3, ELEN}, want_prefix \in BOOLEAN,
          stack \in {0, 255} :
           call = [pc |-> "get_lu_name", file |-> file, b |-> <<"x">>,
                   b_len |-> b_len, want_prefix |-> want_prefix,
                   stack |-> stack]

LuNameCall ==
    /\ call.pc = "get_lu_name"
    /\ call' = [call EXCEPT !.pc = "lu_name_done",
                            !.b = get_lu_name(call.file, call.b, call.b_len,
                                      call.want_prefix, call.stack)]
    /\ UNCHANGED <<mainvars, codec, cmp>>

LuNameNext == LuNameCall

SpecLuName == LuNameInit /\ [][LuNameNext]_vars

-----------------------------------------------------------------------------
(* C21: the priority of the designators *)

\* the offsets in bp of the designators whose header lies in the page
RECURSIVE DesigOffsets(_, _)
DesigOffsets(bp, from) ==
    IF from + 4 > Len(bp) THEN {}
    ELSE {from} \cup DesigOffsets(bp, from + bp[from + 4] + 4)

\* the designators fill the page exactly
RECURSIVE WholeDesignators(_, _)
WholeDesignators(bp, from) ==
    \/ from = Len(bp)
    \/ from + 4 <= Len(bp) /\ WholeDesignators(bp, from + bp[from + 4] + 4)

\* a file that holds a whole Device Identification page
WholePage(file) ==
    /\ file.ok
    /\ Len(file.value) > 8
    /\ file.value[2] = VPD_DEVICE_ID
    /\ (file.value[3] * 256) + file.value[4] + 4 = Len(file.value)
    /\ WholeDesignators(SubSeq(file.value, 5, Len(file.value)), 0)

LuNameDone == call.pc = "lu_name_done"

PageBytes == SubSeq(call.file.value, 5, Len(call.file.value))

\* the fields of the designator at offset o
CodeSet(o) == PageBytes[o + 1] % 16

Protocol(o) == PageBytes[o + 1] \div 16

Piv(o) == PageBytes[o + 2] >= 128

Assoc(o) == (PageBytes[o + 2] \div 16) % 4

DesigType(o) == PageBytes[o + 2] % 16

DesigLen(o) == PageBytes[o + 4]

DesigData(o) == SubSeq(PageBytes, o + 5, o + 4 + DesigLen(o))

Offsets == DesigOffsets(PageBytes, 0)

LuDesig(type, code_set) ==
    {o \in Offsets :
        Assoc(o) = VPD_ASSOC_LU /\ DesigType(o) = type
        /\ CodeSet(o) = code_set}

NaaDesig == {o \in LuDesig(3, 1) : DesigLen(o) \in {8, 16}}

EuiDesig == {o \in LuDesig(2, 1) : DesigLen(o) \in {8, 12, 16}}

UuidDesig ==
    {o \in LuDesig(10, 1) : DesigLen(o) = 18 /\ DesigData(o)[1] \div 16 = 1}

SnsDesig == LuDesig(8, 3)

T10Desig ==
    {o \in Offsets :
        Assoc(o) = VPD_ASSOC_LU /\ DesigType(o) = 1 /\ CodeSet(o) > 1
        /\ DesigLen(o) >= 8}

\* a target port SCSI name string whose protocol identifier is iSCSI
IscsiPort ==
    \E o \in Offsets :
        /\ Assoc(o) = VPD_ASSOC_TPORT /\ DesigType(o) = 8 /\ CodeSet(o) = 3
        /\ Piv(o) /\ Protocol(o) = TPROTO_ISCSI

\* every logical unit designator of the page is of a supported length and
\* sub-type
AllSupported ==
    /\ LuDesig(3, 1) = NaaDesig
    /\ LuDesig(2, 1) = EuiDesig
    /\ LuDesig(10, 1) = UuidDesig
    /\ \A o \in Offsets :
           Assoc(o) = VPD_ASSOC_LU /\ DesigType(o) = 1 => o \in T10Desig

FirstOf(offs) == CHOOSE o \in offs : \A p \in offs : o <= p

WithPrefix(prefix, text) ==
    Truncated(Prefixed(call.want_prefix, prefix, text), call.b_len)

\* the name of the highest-priority designator of the page
PriorityName ==
    IF SnsDesig # {} /\ IscsiPort
    THEN Truncated(StrN(DesigData(FirstOf(SnsDesig))), call.b_len)
    ELSE IF NaaDesig # {}
    THEN WithPrefix(NaaPrefix, HexBytes(DesigData(FirstOf(NaaDesig))))
    ELSE IF EuiDesig # {}
    THEN WithPrefix(EuiPrefix, HexBytes(DesigData(FirstOf(EuiDesig))))
    ELSE IF UuidDesig # {}
    THEN WithPrefix(UuidPrefix,
             UuidText(SubSeq(DesigData(FirstOf(UuidDesig)), 3, 18)))
    ELSE IF SnsDesig # {}
    THEN Truncated(StrN(DesigData(FirstOf(SnsDesig))), call.b_len)
    ELSE IF T10Desig # {}
    THEN WithPrefix(T10Prefix, StrN(DesigData(FirstOf(T10Desig))))
    ELSE <<>>

\* C21: get_lu_name returns the highest-priority designator present in the
\* page, in the order: SCSI name string when the target port's protocol
\* identifier is iSCSI, then NAA (8 or 16 bytes), then EUI-64 (8, 12 or
\* 16 bytes), then UUID, then a SCSI name string without the iSCSI
\* condition, then T10 vendor ID; in particular a logical unit NAA
\* designator is the result when the iSCSI condition does not hold,
\* wherever it sits among the designators.  Stated for whole pages whose
\* logical unit designators are all of a supported length and sub-type.
C21_DesignatorPriority ==
    (LuNameDone /\ WholePage(call.file) /\ AllSupported) =>
        call.b = PriorityName

-----------------------------------------------------------------------------
(* C22: the empty name *)

\* the file was read and its page code and length field are right
HeaderRead ==
    /\ call.file.ok
    /\ Len(call.file.value) > 8
    /\ call.file.value[2] = VPD_DEVICE_ID
    /\ (call.file.value[3] * 256) + call.file.value[4] + 4 =
           Len(call.file.value)

\* the logical unit designators of type 1 (T10 vendor ID), of any code set
T10Any ==
    {o \in Offsets : Assoc(o) = VPD_ASSOC_LU /\ DesigType(o) = 1}

\* the page holds no designator that get_lu_name looks for
NoneRecognized ==
    /\ SnsDesig = {} /\ LuDesig(3, 1) = {} /\ LuDesig(2, 1) = {}
    /\ LuDesig(10, 1) = {}
    /\ T10Any = {}

\* without a SCSI name string every search starts at the first designator:
\* the designator found is the first NAA, or else the first EUI-64, or
\* else the first UUID, or else the first T10 vendor ID
NaaUnsupported ==
    /\ HeaderRead /\ SnsDesig = {} /\ LuDesig(3, 1) # {}
    /\ DesigLen(FirstOf(LuDesig(3, 1))) \notin {8, 16}

EuiUnsupported ==
    /\ HeaderRead /\ SnsDesig = {} /\ LuDesig(3, 1) = {}
    /\ LuDesig(2, 1) # {}
    /\ DesigLen(FirstOf(LuDesig(2, 1))) \notin {8, 12, 16}

UuidUnsupported ==
    /\ HeaderRead /\ SnsDesig = {} /\ LuDesig(3, 1) = {}
    /\ LuDesig(2, 1) = {} /\ LuDesig(10, 1) # {}
    /\ \/ DesigLen(FirstOf(LuDesig(10, 1))) # 18
       \/ ByteAt(PageBytes, FirstOf(LuDesig(10, 1)) + 4, call.stack)
              \div 16 # 1

T10Unsupported ==
    /\ HeaderRead /\ SnsDesig = {} /\ LuDesig(3, 1) = {}
    /\ LuDesig(2, 1) = {} /\ LuDesig(10, 1) = {} /\ T10Any # {}
    /\ \/ CodeSet(FirstOf(T10Any)) <= 1
       \/ DesigLen(FirstOf(T10Any)) < 8

\* C22 as stated: get_lu_name returns the empty string whenever the page
\* is absent, is malformed (wrong page code, length field not matching the
\* bytes read, or a designator of an unsupported length or sub-type), or
\* holds no recognized designator.
C22_EmptyName_Original ==
    (/\ LuNameDone
     /\ \/ ~HeaderRead
        \/ NoneRecognized
        \/ NaaUnsupported \/ EuiUnsupported \/ UuidUnsupported
        \/ T10Unsupported) => call.b = <<>>

\* C22 amended: get_lu_name returns the empty string whenever the page is
\* absent, at most 8 bytes of it are read, its page code is wrong, its
\* length field does not match the bytes read, it holds no recognized
\* designator, or the NAA, EUI-64 or T10 vendor ID designator found is of
\* an unsupported length; for a UUID designator of an unsupported length
\* or sub-type it returns "??" (cut to the buffer), not the empty string.
C22_EmptyName ==
    /\ (/\ LuNameDone
        /\ \/ ~HeaderRead
           \/ NoneRecognized
           \/ NaaUnsupported \/ EuiUnsupported \/ T10Unsupported) =>
           call.b = <<>>
    /\ (LuNameDone /\ UuidUnsupported) =>
           call.b = Truncated(<<"?", "?">>, call.b_len)

\* a page whose only designator is a UUID of sub-type 2 gave "??"
C22_Witness ==
    /\ LuNameDone
    /\ call.file = File(VpdPage(VPD_DEVICE_ID, UuidOther))
    /\ UuidUnsupported
    /\ call.b = <<"?", "?">>

-----------------------------------------------------------------------------
(* sg_vpd_dev_id_iter() harness: calls repeated until one returns non-zero,
   each taken one pass of its loop at a time *)

IterDesignators == {NaaLu, UuidOther, SnsLu, SnsTportFc, T10Short}

IterLists ==
    {<<>>} \cup {d1 : d1 \in IterDesignators}
           \cup {d1 \o d2 : d1 \in IterDesignators, d2 \in IterDesignators}
           \cup {d1 \o d2 \o d3 : d1 \in IterDesignators,
                                  d2 \in IterDesignators,
                                  d3 \in IterDesignators}

\* pages that end with a designator, and ones cut short inside the last
\* designator or inside its header
IterPages ==
    IterLists \cup {SubSeq(d, 1, n) : d \in IterDesignators,
                                       n \in {1, 2, 3, 5}}
              \cup {SubSeq(d, 1, Len(d) - n) : d \in IterLists \ {<<>>},
                                               n \in {1, 5}}

\* m_assoc, m_desig_type, m_code_set
IterWanted ==
    {<<-1, -1, -1>>, <<VPD_ASSOC_LU, 3, 1>>, <<VPD_ASSOC_LU, 8, 3>>,
     <<VPD_ASSOC_TPORT, 8, 3>>, <<VPD_ASSOC_LU, 1, -1>>}

IterInit ==
    /\ MainIdle
    /\ codec = [pc |-> "idle"]
    /\ cmp = [pc |-> "idle"]
    /\ \E bp \in IterPages, m \in IterWanted :
           call = [pc |-> "iter_for", bp |-> bp, page_len |-> Len(bp),
                   m_assoc |-> m[1], m_desig_type |-> m[2],
                   m_code_set |-> m[3], off |-> -1, entry |-> -1, kk |-> -1,
                   r |-> 0]

\* the test of the for loop and the first statement of its body; after the
\* loop, the return statement
IterFor ==
    /\ call.pc = "iter_for"
    /\ IF (call.kk + 3) < call.page_len
       THEN call' = [call EXCEPT !.pc = "iter_if",
                                 !.kk = IterAdvance(call.bp, call.kk)]
       ELSE call' = [call EXCEPT !.pc = "iter_done",
                                 !.r = IF call.kk = call.page_len THEN -1
                                       ELSE -2]
    /\ UNCHANGED <<mainvars, codec, cmp>>

\* the rest of the body: break, continue or return 0
IterIf ==
    /\ call.pc = "iter_if"
    /\ IF (call.kk + 4) > call.page_len
       THEN call' = [call EXCEPT !.pc = "iter_done",
                                 !.r = IF call.kk = call.page_len THEN -1
                                       ELSE -2]
       ELSE IF IterMatches(call.bp, call.kk, call.m_assoc,
                           call.m_desig_type, call.m_code_set)
       THEN call' = [call EXCEPT !.pc = "iter_found", !.off = call.kk,
                                 !.r = 0]
       ELSE call' = [call EXCEPT !.pc = "iter_for"]
    /\ UNCHANGED <<mainvars, codec, cmp>>

\* the next call, with *off as the previous call left it
IterAgain ==
    /\ call.pc = "iter_found"
    /\ call' = [call EXCEPT !.pc = "iter_for", !.entry = call.off,
                            !.kk = call.off]
    /\ UNCHANGED <<mainvars, codec, cmp>>

IterNext == IterFor \/ IterIf \/ IterAgain

\* the calls are steps of one sequential program: a step that can be taken
\* is taken
SpecIter == IterInit /\ [][IterNext]_vars /\ WF_vars(IterNext)

-----------------------------------------------------------------------------
(* C28: the iterator ends, advances and tells a whole page from a cut one *)

\* a call returned 0
IterFound ==
    call.pc = "iter_found" =>
        /\ call.off > call.entry
        /\ call.off + 4 <= call.page_len
        /\ IterMatches(call.bp, call.off, call.m_assoc, call.m_desig_type,
                       call.m_code_set)

\* the call returned what the whole loop of sg_vpd_dev_id_iter() returns
IterAsLoop ==
    call.pc \in {"iter_found", "iter_done"} =>
        [r |-> call.r, off |-> call.off] =
            sg_vpd_dev_id_iter(call.bp, call.page_len, call.entry,
                call.m_assoc, call.m_desig_type, call.m_code_set)

-----------------------------------------------------------------------------
(* collect_dev_nodes() and get_dev_node() *)

DEV_NODE_LIST_ENTRIES == 16

LMAX_NAME == 256

LMAX_DEVPATH == 384

\* dev_node_listhead == NULL: a chain of no list
NullList == <<>>

\* dev_dir_s
DevDirText == <<"/", "d", "e", "v">>

\* the struct dev_node_entry of the node e of /dev
DevNodeEntry(e) ==
    [maj |-> U64OfNat(e.maj), min |-> U64OfNat(e.min),
     d_typ |-> IF e.mode = "blk" THEN "BLK_DEV" ELSE "CHR_DEV",
     mtime |-> e.mtime,
     name |-> my_strcopy(Truncated(DevDirText \o <<"/">> \o e.d_name,
                                   LMAX_DEVPATH), LMAX_DEVPATH)]

\* the readdir() loop from the i-th entry of /dev on; lists is the chain of
\* struct dev_node_list built so far, callocs the number of calloc() calls
\* that succeed
RECURSIVE CollectLoop(_, _, _, _)
CollectLoop(dir, i, lists, callocs) ==
    IF i > Len(dir) THEN lists
    ELSE IF ~dir[i].lstat_ok \/ dir[i].mode \notin {"blk", "chr"}
    THEN CollectLoop(dir, i + 1, lists, callocs)
    ELSE IF Len(lists[Len(lists)]) >= DEV_NODE_LIST_ENTRIES
    THEN IF Len(lists) >= callocs THEN lists
         ELSE CollectLoop(dir, i + 1,
                  Append(lists, <<DevNodeEntry(dir[i])>>), callocs)
    ELSE CollectLoop(dir, i + 1,
             [lists EXCEPT ![Len(lists)] = Append(@, DevNodeEntry(dir[i]))],
             callocs)

\* collect_dev_nodes(): dev_node_listhead afterwards, NullList or the chain of
\* lists; dev is /dev (ok: opendir() succeeds; ents: what readdir() yields)
collect_dev_nodes(dev_node_listhead, dev, callocs) ==
    IF dev_node_listhead # NullList THEN dev_node_listhead
    ELSE IF callocs < 1 THEN NullList
    ELSE IF ~dev.ok THEN <<<<>>>>
    ELSE CollectLoop(dev.ents, 1, <<<<>>>>, callocs)

\* sscanf(value, "%u:%u", &maj, &min): the conversions made and the values
ScanMin(first, rest) ==
    IF rest = <<>> \/ rest[1] # ":" THEN [n |-> 1, maj |-> first.val]
    ELSE IF ~Scan_u32(Tail(rest)).ok THEN [n |-> 1, maj |-> first.val]
    ELSE [n |-> 2, maj |-> first.val, min |-> Scan_u32(Tail(rest)).val]

ScanMajMin(value) ==
    IF ~Scan_u32(value).ok THEN [n |-> 0]
    ELSE ScanMin(Scan_u32(value), From(value, Scan_u32(value).n + 1))

\* a first match that is kept whatever comes later
NewestMatch_first_kept(cur_ent, found) ==
    IF ~found.match_found
    THEN [match_found |-> TRUE, newest_mtime |-> cur_ent.mtime,
          node |-> my_strcopy(cur_ent.name, LMAX_NAME)]
    ELSE found

\* the body of the if for a matching entry
NewestMatch(cur_ent, found) ==
    IF ~found.match_found \/ cur_ent.mtime > found.newest_mtime
    THEN [match_found |-> TRUE, newest_mtime |-> cur_ent.mtime,
          node |-> my_strcopy(cur_ent.name, LMAX_NAME)]
    ELSE [found EXCEPT !.match_found = TRUE]

\* the while (1) loop: li is cur_list (its place in the chain), kk is k
RECURSIVE SearchLists(_, _, _, _, _, _)
RECURSIVE SearchEntry(_, _, _, _, _, _)
SearchLists(lists, li, kk, dev_no, d_typ, found) ==
    IF kk >= Len(lists[li])
    THEN IF li = Len(lists) THEN found
         ELSE SearchEntry(lists, li + 1, 0, dev_no, d_typ, found)
    ELSE SearchEntry(lists, li, kk, dev_no, d_typ, found)

SearchEntry(lists, li, kk, dev_no, d_typ, found) ==
    SearchLists(lists, li, kk + 1, dev_no, d_typ,
        IF /\ dev_no.maj = lists[li][kk + 1].maj
           /\ dev_no.min = lists[li][kk + 1].min
           /\ d_typ = lists[li][kk + 1].d_typ
        THEN NewestMatch(lists[li][kk + 1], found)
        ELSE found)

NoMatch == [match_found |-> FALSE, newest_mtime |-> 0, node |-> <<"-">>]

\* get_dev_node(wd, node, d_typ) once dev_node_listhead is set: file is the
\* dev attribute under wd; match_found and node
get_dev_node(dev_node_listhead, file, d_typ) ==
    IF dev_node_listhead = NullList THEN NoMatch
    ELSE IF ~file.ok THEN NoMatch
    ELSE IF ScanMajMin(get_value(file, LMAX_NAME)).n # 2 THEN NoMatch
    ELSE SearchLists(dev_node_listhead, 1, 0,
             ScanMajMin(get_value(file, LMAX_NAME)), d_typ, NoMatch)

-----------------------------------------------------------------------------
(* get_dev_node() harness: two calls, the first one collecting the nodes *)

\* a name of 251 characters: with "/dev/" it does not fit LMAX_NAME bytes
LongNodeName == [i \in 1..251 |-> "a"]

DevNode(d_name, mode, lstat_ok, maj, min, mtime) ==
    [d_name |-> d_name, mode |-> mode, lstat_ok |-> lstat_ok, maj |-> maj,
     min |-> min, mtime |-> mtime]

\* block nodes 8:0 of different and of equal age, a char node 8:0, a
\* symbolic link, a node lstat() fails on, sg0, and a block node 8:16 with
\* the long name
DevNodes ==
    {DevNode(<<"s", "d", "a">>, "blk", TRUE, 8, 0, 5),
     DevNode(<<"s", "d", "x">>, "blk", TRUE, 8, 0, 9),
     DevNode(<<"s", "d", "y">>, "blk", TRUE, 8, 0, 9),
     DevNode(<<"c", "8">>, "chr", TRUE, 8, 0, 7),
     DevNode(<<"l", "n", "k">>, "lnk", TRUE, 8, 0, 20),
     DevNode(<<"g", "o", "n", "e">>, "blk", FALSE, 8, 0, 30),
     DevNode(<<"s", "g", "0">>, "chr", TRUE, 21, 0, 5),
     DevNode(LongNodeName, "blk", TRUE, 8, 16, 3)}

\* 16 tty nodes, which fill the first struct dev_node_list
TtyNodes == [i \in 1..16 |-> DevNode(<<"t", Digits[(i % 10) + 1]>>, "chr",
                                     TRUE, 4, i, 1)]

DevDirs ==
    {[ok |-> FALSE, ents |-> <<>>], [ok |-> TRUE, ents |-> <<>>]}
    \cup {[ok |-> TRUE, ents |-> <<a>>] : a \in DevNodes}
    \cup {[ok |-> TRUE, ents |-> p] :
             p \in {q \in DevNodes \X DevNodes : q[1] # q[2]}}
    \cup {[ok |-> TRUE, ents |-> p] :
             p \in {q \in DevNodes \X DevNodes \X DevNodes :
                        q[1] # q[2] /\ q[1] # q[3] /\ q[2] # q[3]}}
    \cup {[ok |-> TRUE, ents |-> <<p[1]>> \o TtyNodes \o <<p[2]>>] :
             p \in {q \in DevNodes \X DevNodes : q[1] # q[2]}}

\* the dev attribute of the class device
DevAttrs ==
    {NoFile, File(<<"8", ":", "0">>), File(<<"8", ":", "1", "6">>),
        File(<<"2", "1", ":", "0">>), File(<<"8">>),
     File(<<"x", ":", "0">>), File(<<"8", ":", "x">>), File(<<>>)}

DevNodeInit ==
    /\ MainIdle
    /\ codec = [pc |-> "idle"]
    /\ cmp = [pc |-> "idle"]
    /\ \E dev \in DevDirs, callocs \in 0..2 :
           call = [pc |-> "get_dev_node", dev |-> dev, callocs |-> callocs,
                   dev_node_listhead |-> NullList, calls |-> 0,
                   file |-> NoFile, d_typ |-> "BLK_DEV",
                   match_found |-> FALSE, node |-> <<>>]

\* get_dev_node(wd, node, d_typ), with its call of collect_dev_nodes()
DevNodeStage(head, file, d_typ) ==
    call' = [call EXCEPT !.pc = "dev_node_done",
                         !.dev_node_listhead = head,
                         !.calls = @ + 1,
                         !.file = file, !.d_typ = d_typ,
                         !.match_found =
                             get_dev_node(head, file, d_typ).match_found,
                         !.node = get_dev_node(head, file, d_typ).node]

DevNodeCall ==
    /\ call.pc = "get_dev_node"
    /\ \E file \in DevAttrs, d_typ \in {"BLK_DEV", "CHR_DEV"} :
           DevNodeStage(collect_dev_nodes(call.dev_node_listhead, call.dev,
                                          call.callocs), file, d_typ)
    /\ UNCHANGED <<mainvars, codec, cmp>>

\* calls of get_dev_node() in one run
MaxCalls == 2

\* the caller goes on to its next device
DevNodeAgain ==
    /\ call.pc = "dev_node_done"
    /\ call.calls < MaxCalls
    /\ call' = [call EXCEPT !.pc = "get_dev_node", !.file = NoFile,
                            !.d_typ = "BLK_DEV", !.match_found = FALSE,
                            !.node = <<>>]
    /\ UNCHANGED <<mainvars, codec, cmp>>

DevNodeNext == DevNodeCall \/ DevNodeAgain

SpecDevNode == DevNodeInit /\ [][DevNodeNext]_vars

-----------------------------------------------------------------------------
(* C23: the newest matching device node *)

\* the entries of the collected list
CollectedNodes ==
    IF call.dev_node_listhead = NullList THEN {}
    ELSE UNION {Range(call.dev_node_listhead[li]) :
                    li \in 1..Len(call.dev_node_listhead)}

\* the major and minor of the class device were read
DevRead == call.file.ok /\ ScanMajMin(call.file.value).n = 2

\* the collected nodes of the class device's major, minor and type
MatchingNodes ==
    {e \in CollectedNodes :
        /\ e.maj = ScanMajMin(call.file.value).maj
        /\ e.min = ScanMajMin(call.file.value).min
        /\ e.d_typ = call.d_typ}

DevNodeDone == call.pc = "dev_node_done"

\* C23 as stated: get_dev_node returns true exactly when the collected list
\* holds at least one node whose major, minor and type equal those of the
\* class device; the node name it returns is then a matching node such
\* that no other matching node has a strictly later modification time;
\* with no match (or the dev attribute absent or unparsable) it returns
\* false with the node name "-".
C23_NewestNode_Original ==
    DevNodeDone =>
        /\ call.match_found = (DevRead /\ MatchingNodes # {})
        /\ call.match_found =>
               \E e \in MatchingNodes :
                   /\ call.node = e.name
                   /\ \A f \in MatchingNodes : f.mtime <= e.mtime
        /\ ~call.match_found => call.node = <<"-">>

\* C23 amended: as stated, the node name returned being the first
\* LMAX_NAME - 1 = 255 characters of the name of such a matching node.
C23_NewestNode ==
    DevNodeDone =>
        /\ call.match_found = (DevRead /\ MatchingNodes # {})
        /\ call.match_found =>
               \E e \in MatchingNodes :
                   /\ call.node = SubSeq(e.name, 1,
                          IF Len(e.name) > 255 THEN 255 ELSE Len(e.name))
                   /\ \A f \in MatchingNodes : f.mtime <= e.mtime
        /\ ~call.match_found => call.node = <<"-">>

\* of the block nodes 8:0 sda (older) and sdx (newer), sdx was returned
C23_Witness ==
    /\ DevNodeDone
    /\ call.dev.ents = <<DevNode(<<"s", "d", "x">>, "blk", TRUE, 8, 0, 9),
                         DevNode(<<"s", "d", "a">>, "blk", TRUE, 8, 0, 5)>>
    /\ call.file = File(<<"8", ":", "0">>)
    /\ call.d_typ = "BLK_DEV"
    /\ call.match_found
    /\ call.node = <<"/", "d", "e", "v", "/", "s", "d", "x">>

-----------------------------------------------------------------------------
(* C29: a controller whose namespace scan fails *)

\* a device listing without a filter that came to scan /sys/class/nvme
ControllersListed ==
    /\ pc = "exit"
    /\ ~op.do_hosts /\ ~op.no_nvme /\ ~op.classic
    /\ ~filter_active
    /\ \E p \in 1..Len(scans) : scans[p] = "class/nvme"
    /\ sysfs.nvme.ok

\* C29: in list_ndevices, when the namespace scan of one NVMe controller
\* fails, the listing continues with the next controller: the namespaces
\* of every controller whose own scan succeeds are emitted, wherever the
\* controller stands in the sorted list.
C29_NextController ==
    ControllersListed =>
        \A c \in Range(sysfs.nvme.ents) :
            c.dir.ok =>
                \A d \in Range(c.dir.ents) :
                    IsNsName(d) =>
                        \E p \in 1..Len(EntryNames("ndev")) :
                            EntryNames("ndev")[p] = d

-----------------------------------------------------------------------------
(* comparator harness: a scandir() comparator called on a pair of names and
   on the same pair swapped *)

\* SCSI devices, names with a colon that are no h:c:t:l tuple, namespaces
\* and controllers
SortNames ==
    {HctlName(0, 0, 0, 1), HctlName(2, 0, 0, 0), <<"0", ":", "0", ":",
        "0">>, <<"1", ":", "0", ":", "0">>,
     NsName(0, 1), NsName(0, 2), CtlName(0), CtlName(1)}

SortInit ==
    /\ MainIdle
    /\ codec = [pc |-> "idle"]
    /\ cmp = [pc |-> "idle"]
    /\ \E fn \in {"sdev_scandir_sort", "nhost_scandir_sort"},
          a \in SortNames, b \in SortNames :
           call = [pc |-> "compar", fn |-> fn, a |-> a, b |-> b, ab |-> 0,
                   ba |-> 0]

\* (*compar)(a, b), the locals of the call holding what the stack held
Compar(fn, lnam, rnam, stackl, stackr) ==
    IF fn = "sdev_scandir_sort"
    THEN sdev_scandir_sort(lnam, rnam, stackl, stackr)
    ELSE nhost_scandir_sort(lnam, rnam, stackl, stackr)

SortCall ==
    /\ call.pc = "compar"
    /\ \E stackl \in StackTuples, stackr \in StackTuples :
           call' = [call EXCEPT !.pc = "compar_swapped",
                                !.ab = Compar(call.fn, call.a, call.b,
                                              stackl, stackr)]
    /\ UNCHANGED <<mainvars, codec, cmp>>

SortCallSwapped ==
    /\ call.pc = "compar_swapped"
    /\ \E stackl \in StackTuples, stackr \in StackTuples :
           call' = [call EXCEPT !.pc = "compar_done",
                                !.ba = Compar(call.fn, call.b, call.a,
                                              stackl, stackr)]
    /\ UNCHANGED <<mainvars, codec, cmp>>

SortNext == SortCall \/ SortCallSwapped

SpecSort == SortInit /\ [][SortNext]_vars

-----------------------------------------------------------------------------
(* C30: antisymmetry of the comparators *)

\* both names pass a selection predicate the comparator is paired with in a
\* scandir() call: sdev_scandir_sort with sdev_dir_scan_select (SCSI
\* devices) and with ndev_dir_scan_select2 (namespaces), nhost_scandir_sort
\* with ndev_dir_scan_select (controllers); no filter is active
BothSelected ==
    IF call.fn = "sdev_scandir_sort"
    THEN \/ \A stack \in StackTuples :
                /\ sdev_dir_scan_select(call.a, stack) = 1
                /\ sdev_dir_scan_select(call.b, stack) = 1
         \/ /\ ndev_dir_scan_select2(call.a) = 1
            /\ ndev_dir_scan_select2(call.b) = 1
    ELSE /\ ndev_dir_scan_select(call.a) = 1
         /\ ndev_dir_scan_select(call.b) = 1

\* C30: sdev_scandir_sort and nhost_scandir_sort are antisymmetric for
\* every pair of entry names that can pass their selection predicates,
\* including names that fail to parse as a tuple: cmp(a,b) = -cmp(b,a).
C30_Antisymmetric ==
    (call.pc = "compar_done" /\ BothSelected) => call.ab = 0 - call.ba

-----------------------------------------------------------------------------
(* transport_tport(): the transport of a SCSI device *)

TRANSPORT_PCIE == 12

LMAX_PATH == 4096

SasZero == <<"0", "x", "0", "0", "0", "0", "0", "0", "0", "0", "0", "0",
        "0", "0", "0", "0", "0", "0">>

TpgtText == <<",", "t", ",", "0", "x">>

\* a text without its leading zeros, down to one character
RECURSIVE StripZeros(_)
StripZeros(s) ==
    IF Len(s) > 1 /\ Head(s) = "0" THEN StripZeros(Tail(s)) ELSE s

\* printf("%x", (uint32_t)x) for the int x
Fmt_x32(x) ==
    IF x >= 0
    THEN StripZeros(Hex4(x \div 65536) \o Hex4(x % 65536))
    ELSE Hex4((((x + INT_MAX) + 1) \div 65536) + 32768)
             \o Hex4(((x + INT_MAX) + 1) % 65536)

\* the ATA or SATA probe of a device: the driver name of its host, then
\* the logical unit name behind "sata:" or "ata:"
TportAtaName(d, b_len, id, pfx, probes, msgs) ==
    Left(TRUE, id,
         Truncated(pfx, b_len)
             \o Truncated(get_lu_name(d.vpd_pg83,
                                      get_value(d.proc_name, LMAX_PATH),
                                      LMAX_PATH, FALSE, 0),
                          b_len - Len(Truncated(pfx, b_len))),
         probes, msgs)

TportAta(d, b_len, id, b, probes, msgs) ==
    IF d.proc_name.ok /\ d.proc_name.value = Ahci
    THEN TportAtaName(d, b_len, TRANSPORT_SATA, SataText, probes, msgs)
    ELSE IF d.proc_name.ok /\ Contains(d.proc_name.value, Ata)
    THEN IF HasPrefix(d.proc_name.value, Sata)
         THEN TportAtaName(d, b_len, TRANSPORT_SATA, SataText, probes, msgs)
         ELSE TportAtaName(d, b_len, TRANSPORT_ATA, AtaText, probes, msgs)
    ELSE Left(FALSE, id, b, probes, msgs)

\* the USB probe of a device
TportUsbStep(d, b_len, id, b, probes, msgs, cp) ==
    IF cp.ok
    THEN Left(TRUE, TRANSPORT_USB, Truncated(UsbText \o cp.value, b_len),
              probes, msgs)
    ELSE TportAta(d, b_len, id, b, Append(probes, "ata"), msgs)

TportUsb(d, b_len, id, b, probes, msgs) ==
    TportUsbStep(d, b_len, id, b, probes, msgs, get_usb_devname(d.realpath))

\* the iSCSI probe of a device: targets is what iscsi_target_scan()
\* returns, targetname and tpgt the attributes of the session it found
TportIscsi(d, b_len, id, b, probes, msgs) ==
    IF d.iscsi_host
    THEN IF d.targets # 1 THEN Left(FALSE, id, b, probes, msgs)
         ELSE IF ~d.targetname.ok \/ ~d.tpgt.ok
         THEN Left(FALSE, TRANSPORT_ISCSI, b, probes, msgs)
         ELSE Left(TRUE, TRANSPORT_ISCSI,
                   Truncated(get_value(d.targetname, LMAX_NAME)
                                 \o TpgtText
                                 \o Fmt_x32(Scan_d(get_value(d.tpgt,
                                                       LMAX_NAME)).val),
                             b_len),
                   probes, msgs)
    ELSE TportUsb(d, b_len, id, b, Append(probes, "usb"), msgs)

\* the probe of the SAS class representation (a sas_device directory under
\* the device) and of SBP (an ieee1394_id attribute)
TportSasClass(d, b_len, id, b, probes) ==
    IF d.sas_device
    THEN IF d.sas_addr.ok
         THEN Attribute(d.sas_addr, TRANSPORT_SAS_CLASS, SasText, b_len,
                        probes, <<>>)
         ELSE TportIscsi(d, b_len, TRANSPORT_SAS_CLASS,
                         Truncated(SasText, b_len),
                         Append(probes, "iscsi"),
                         <<"transport_tport: no sas_addr">>)
    ELSE IF d.ieee1394_id.ok
    THEN Left(TRUE, TRANSPORT_SBP,
              Truncated(SbpText \o get_value(d.ieee1394_id, LMAX_PATH)
                            \o <<":">>, b_len),
              Append(probes, "sbp"), <<>>)
    ELSE TportIscsi(d, b_len, id, b, probes \o <<"sbp", "iscsi">>, <<>>)

\* the SRP probe of a device
TportSrp(d, b_len, id, b, probes) ==
    IF d.srp_host
    THEN Left(TRUE, TRANSPORT_SRP,
              get_local_srp_gid(d.srp_gid, Truncated(SrpText, b_len), b_len),
              probes, <<>>)
    ELSE TportSasClass(d, b_len, id, b, Append(probes, "sas_class"))

\* the FC probe of a device once b holds "fc:" or "fcoe:": port_name of
\* the target, a comma and port_id behind it
TportFcPortId(d, b_len, id, b, probes) ==
    IF d.port_id.ok
    THEN Left(TRUE, id, b \o get_value(d.port_id, b_len - Len(b)), probes,
              <<>>)
    ELSE Left(FALSE, id, b, probes, <<>>)

TportFcPortName(d, b_len, id, b, probes) ==
    IF d.port_name.ok
    THEN TportFcPortId(d, b_len, id,
             (b \o get_value(d.port_name, b_len - Len(b)))
                 \o my_strcopy(<<",">>,
                        b_len - Len(b \o get_value(d.port_name,
                                                   b_len - Len(b)))),
             probes)
    ELSE Left(FALSE, id, b, probes, <<>>)

\* the FC probe of a device once symbolic_name has been looked at
TportFcKind(d, b_len, id, b, probes) ==
    IF id # TRANSPORT_FCOE
    THEN TportFcPortName(d, b_len, TRANSPORT_FC, Truncated(FcText, b_len),
                         probes)
    ELSE TportFcPortName(d, b_len, id, b, probes)

\* the FC probe of a device
TportFc(d, b_len, id, b, probes) ==
    IF d.fc_host
    THEN IF d.symbolic_name.ok
            /\ Contains(get_value(d.symbolic_name, LMAX_PATH), Over)
         THEN TportFcKind(d, b_len, TRANSPORT_FCOE,
                          Truncated(FcoeText, b_len), probes)
         ELSE TportFcKind(d, b_len, id, b, probes)
    ELSE TportSrp(d, b_len, id, b, Append(probes, "srp"))

\* the SPI probe of a device
TportSpi(d, b_len, id, b, hctl, probes) ==
    IF d.spi_host
    THEN Left(TRUE, TRANSPORT_SPI,
              Truncated(SpiText \o Fmt_d(hctl.t), b_len), probes, <<>>)
    ELSE TportFc(d, b_len, id, b, Append(probes, "fc"))

\* the SAS probe once getcwd() has given wd: the two last components are
\* cut off, and the end device left has the sas_address
TportSasCut(d, b_len, vb, b, wd, cp) ==
    IF cp = 0 \/ StrRChr(SubSeq(wd, 1, cp - 1), "/") = 0
    THEN Left(FALSE, TRANSPORT_SAS, b, <<"sas">>, <<>>)
    ELSE IF d.sas_address.ok
    THEN Attribute(d.sas_address, TRANSPORT_SAS, SasText, b_len, <<"sas">>,
                   <<>>)
    ELSE Left(TRUE, TRANSPORT_SAS,
              Truncated(SasText, b_len)
                  \o Truncated(SasZero, b_len - Len(Truncated(SasText,
        b_len))),
              <<"sas">>,
              IF vb THEN <<"transport_tport: no sas_address">> ELSE <<>>)

\* the SAS probe of a device
TportSas(d, b_len, vb, id, b, hctl) ==
    IF d.sas_host
    THEN IF d.device_dir
         THEN IF d.wd.ok
              THEN TportSasCut(d, b_len, vb, b, d.wd.value,
                               StrRChr(d.wd.value, "/"))
              ELSE Left(FALSE, TRANSPORT_SAS, b, <<"sas">>, <<>>)
         ELSE Left(FALSE, TRANSPORT_SAS, b, <<"sas">>,
                   <<"transport_tport: down FAILED">>)
    ELSE TportSpi(d, b_len, id, b, hctl, <<"sas", "spi">>)

\* transport_tport(devname, op, b_len, b) for the device with pseudo-tree
\* d: vb for op->verbose > 1, id the transport_id and b the text found at
\* the call, prior what the local hctl held
TportParsed(d, b_len, vb, id, b, hctl) ==
    IF hctl.ok THEN TportSas(d, b_len, vb, id, b, hctl.v)
    ELSE Left(FALSE, id, b, <<>>, <<>>)

transport_tport(d, b_len, vb, id, b, prior) ==
    TportParsed(d, b_len, vb, id, b, parse_colon_list(d.name, prior))

-----------------------------------------------------------------------------
(* transport_init_longer() and transport_tport_longer(): the switch on
   transport_id and the first lines that each case prints *)

\* a switch whose FCoE case prints what the FC case prints
transport_init_longer_fc_only(id) ==
    CASE id = TRANSPORT_SPI -> <<"transport=spi">>
      [] id \in {TRANSPORT_FC, TRANSPORT_FCOE} -> <<"transport=fc:">>
      [] OTHER -> <<>>

transport_init_longer(id) ==
    CASE id = TRANSPORT_SPI -> <<"transport=spi">>
      [] id \in {TRANSPORT_FC, TRANSPORT_FCOE} ->
             <<IF id = TRANSPORT_FC THEN "transport=fc:"
               ELSE "transport=fcoe:">>
      [] id = TRANSPORT_SRP -> <<"transport=srp">>
      [] id = TRANSPORT_SAS -> <<"transport=sas">>
      [] id = TRANSPORT_SAS_CLASS ->
             <<"transport=sas", "sub_transport=sas_class">>
      [] id = TRANSPORT_ISCSI -> <<"transport=iSCSI">>
      [] id = TRANSPORT_SBP -> <<"transport=sbp">>
      [] id = TRANSPORT_USB -> <<"transport=usb">>
      [] id = TRANSPORT_ATA -> <<"transport=ata">>
      [] id = TRANSPORT_SATA -> <<"transport=sata">>
      [] id = TRANSPORT_PCIE -> <<"transport=pcie">>
      [] OTHER -> <<>>

transport_tport_longer(id) ==
    CASE id = TRANSPORT_SPI -> <<"transport=spi">>
      [] id \in {TRANSPORT_FC, TRANSPORT_FCOE} ->
             <<IF id = TRANSPORT_FC THEN "transport=fc:"
               ELSE "transport=fcoe:">>
      [] id = TRANSPORT_SRP -> <<"transport=srp">>
      [] id = TRANSPORT_SAS -> <<"transport=sas">>
      [] id = TRANSPORT_SAS_CLASS ->
             <<"transport=sas", "sub_transport=sas_class">>
      [] id = TRANSPORT_ISCSI -> <<"transport=iSCSI">>
      [] id = TRANSPORT_SBP -> <<"transport=sbp">>
      [] id = TRANSPORT_USB -> <<"transport=usb">>
      [] id = TRANSPORT_ATA -> <<"transport=ata">>
      [] id = TRANSPORT_SATA -> <<"transport=sata">>
      [] OTHER -> <<>>

-----------------------------------------------------------------------------
(* listing harness: the loop of list_shosts() or list_sdevices() over two
   entries, each classified by transport_init() or transport_tport() and,
   with --list, detailed by transport_init_longer() or
   transport_tport_longer() *)

\* a loop that leaves transport_id as the entry before left it
EntryStart_kept(id) == id

\* transport_id = TRANSPORT_UNKNOWN at the top of the loop body
EntryStart(id) == TRANSPORT_UNKNOWN

\* the pseudo-tree of a device, as far as transport_tport() looks at it
DevTree(name, sas, spi, fc, srp, cls, iscsi, path, proc) ==
    [name |-> name,
     sas_host |-> sas.dir, device_dir |-> sas.down, wd |-> sas.wd,
     sas_address |-> sas.ad,
     spi_host |-> spi,
     fc_host |-> fc.dir, symbolic_name |-> fc.sym, port_name |-> fc.ptn,
     port_id |-> fc.pid,
     srp_host |-> srp.dir, srp_gid |-> srp.gid,
     sas_device |-> cls.dir, sas_addr |-> cls.ad, ieee1394_id |-> cls.id,
     iscsi_host |-> iscsi.dir, targets |-> iscsi.num,
     targetname |-> iscsi.nm, tpgt |-> iscsi.tpgt,
     realpath |-> path,
     proc_name |-> proc.name, vpd_pg83 |-> proc.pg83]

NoDevSas == [dir |-> FALSE, down |-> FALSE, wd |-> NoFile, ad |-> NoFile]

EndDevicePath == File(<<"/", "e", "-", "0", ":", "0", "/", "t", "0", ":",
        "0", ":", "0", "/", "0", ":", "0", ":", "0", ":", "0">>)

DevSasAll ==
    {NoDevSas,
     [dir |-> TRUE, down |-> FALSE, wd |-> NoFile, ad |-> NoFile],
     [dir |-> TRUE, down |-> TRUE, wd |-> NoFile, ad |-> NoFile],
     [dir |-> TRUE, down |-> TRUE, wd |-> File(<<"/", "0", ":", "0", ":",
        "0", ":", "0">>), ad |-> NoFile],
     [dir |-> TRUE, down |-> TRUE, wd |-> EndDevicePath, ad |-> NoFile],
     [dir |-> TRUE, down |-> TRUE, wd |-> EndDevicePath, ad |-> SasAddress]}

NoCls == [dir |-> FALSE, ad |-> NoFile, id |-> NoFile]

DevClsAll ==
    {NoCls, [dir |-> TRUE, ad |-> NoFile, id |-> NoFile],
     [dir |-> TRUE, ad |-> SasAddress, id |-> NoFile],
     [dir |-> FALSE, ad |-> NoFile, id |-> File(<<"0", "0", "0", "1", "0",
        "2", "0", "3", "0", "4", "0", "5", "0", "6", "0", "7">>)]}

NoIscsi == [dir |-> FALSE, num |-> 0 - 1, nm |-> NoFile, tpgt |-> NoFile]

TargetIqn == File(<<"i", "q", "n", ".", "2", "0", "0", "3", "-", "0", "1",
        ".", "o", "r", "g", ":", "t", "1">>)

DevIscsiAll ==
    {NoIscsi, [dir |-> TRUE, num |-> 0, nm |-> NoFile, tpgt |-> NoFile],
     [dir |-> TRUE, num |-> 1, nm |-> NoFile, tpgt |-> NoFile],
     [dir |-> TRUE, num |-> 1, nm |-> TargetIqn, tpgt |-> NoFile],
     [dir |-> TRUE, num |-> 1, nm |-> TargetIqn, tpgt |-> File(<<"2", "6">>)],
     [dir |-> TRUE, num |-> 1, nm |-> TargetIqn, tpgt |-> File(<<"-", "1">>)]}

NoProc == [name |-> NoFile, pg83 |-> NoFile]

DevProcAll ==
    {NoProc, [name |-> File(Ahci), pg83 |-> NoFile],
     [name |-> File(Ahci), pg83 |-> File(VpdPage(VPD_DEVICE_ID, NaaLu))],
     [name |-> File(<<"p", "a", "t", "a", "_", "v", "i", "a">>),
        pg83 |-> NoFile],
     [name |-> File(<<"s", "a", "t", "a", "_", "n", "v">>), pg83 |-> NoFile]}

\* the devices at position kk of the list: every choice for the FC probe,
\* with and without an SPI host, and every choice for each other probe
\* alone
ListDevices(kk) ==
    {DevTree(HctlName(kk, 0, 1, 0), NoDevSas, spi, fc, NoSrp, NoCls, NoIscsi,
             NoFile, NoProc) : spi \in BOOLEAN, fc \in FcAll}
    \cup {DevTree(HctlName(kk, 0, 1, 0), sas, FALSE, fc, NoSrp, NoCls,
                  NoIscsi, NoFile, NoProc) : sas \in DevSasAll, fc \in FcFew}
    \cup {DevTree(HctlName(kk, 0, 1, 0), NoDevSas, FALSE, NoFc, srp, cls,
                  NoIscsi, NoFile, NoProc) :
             srp \in SrpAll, cls \in DevClsAll}
    \cup {DevTree(HctlName(kk, 0, 1, 0), NoDevSas, FALSE, NoFc, NoSrp, cls,
                  iscsi, path, NoProc) :
             cls \in {NoCls, [dir |-> TRUE, ad |-> NoFile, id |-> NoFile]},
             iscsi \in DevIscsiAll, path \in {NoFile, UsbPath}}
    \cup {DevTree(HctlName(kk, 0, 1, 0), NoDevSas, FALSE, NoFc, NoSrp, NoCls,
                  NoIscsi, path, proc) :
             path \in {NoFile, PciPath, UsbPath}, proc \in DevProcAll}
    \cup {DevTree(<<"0", ":", "0", ":", "0">>, NoDevSas, FALSE, fc, NoSrp,
        NoCls, NoIscsi,
                  NoFile, NoProc) : fc \in FcFew}

\* the hosts at position kk of the list: every choice for the FC probe,
\* with and without an SPI host, and an SRP host and one with the ahci
\* driver
ListHosts(kk) ==
    {[name |-> HostName(kk),
      tree |-> HostTree(spi, fc, NoSrp, NoSas, NoHa, NoLink, FALSE, NoFile,
                        NoFile)] : spi \in BOOLEAN, fc \in FcAll}
    \cup {[name |-> HostName(kk),
           tree |-> HostTree(FALSE, NoFc, srp, NoSas, NoHa, NoLink, FALSE,
                             NoFile, proc)] :
             srp \in SrpFew, proc \in ProcFew}

\* the options the entries look at; main() refuses --transport with one or
\* two --long
ListingOpts ==
    {o \in [classic : BOOLEAN, transport_info : BOOLEAN, long_opt : {0, 1,
        3}] :
        o.transport_info => o.long_opt \notin {1, 2}}

\* what the fc_host directory of the entry listed first holds
FcFirst ==
    {NoFc,
     [dir |-> TRUE, sym |-> PlainName, ptn |-> PortName, pid |-> PortId],
     [dir |-> TRUE, sym |-> OverName, ptn |-> PortName, pid |-> PortId],
     [dir |-> TRUE, sym |-> OverName, ptn |-> NoFile, pid |-> PortId]}

\* the entries listed first: the FC choices of FcFirst, and an SPI host
FirstHosts ==
    {e \in ListHosts(0) :
        /\ e.tree.proc_name = NoFile /\ ~e.tree.srp_host
        /\ \/ ~e.tree.spi_host
              /\ \E fc \in FcFirst :
                     /\ e.tree.fc_host = fc.dir
                     /\ e.tree.symbolic_name = fc.sym
                     /\ e.tree.port_name = fc.ptn
                     /\ e.tree.port_id = fc.pid
           \/ e.tree.spi_host /\ ~e.tree.fc_host}

FirstDevices ==
    {DevTree(HctlName(0, 0, 1, 0), NoDevSas, FALSE, fc, NoSrp, NoCls,
             NoIscsi, NoFile, NoProc) : fc \in FcFirst}
    \cup {DevTree(HctlName(0, 0, 1, 0), NoDevSas, TRUE, NoFc, NoSrp, NoCls,
                  NoIscsi, NoFile, NoProc)}

ListInit ==
    /\ MainIdle
    /\ codec = [pc |-> "idle"]
    /\ cmp = [pc |-> "idle"]
    /\ \E opts \in ListingOpts :
           \/ \E e1 \in FirstHosts, e2 \in ListHosts(1) :
                  call = [pc |-> "for", list |-> "hosts",
                          entries |-> <<e1, e2>>, kk |-> 0,
                          transport_id |-> TRANSPORT_UNKNOWN, opts |-> opts,
                          done |-> <<>>, lines |-> <<>>]
           \/ \E e1 \in FirstDevices, e2 \in ListDevices(1) :
                  call = [pc |-> "for", list |-> "devices",
                          entries |-> <<e1, e2>>, kk |-> 0,
                          transport_id |-> TRANSPORT_UNKNOWN, opts |-> opts,
                          done |-> <<>>, lines |-> <<>>]

\* printf("%-30s  ", value)
Summary30(value) ==
    value \o [i \in 1..(IF Len(value) < 30 THEN 30 - Len(value) ELSE 0)
                 |-> " "] \o <<" ", " ">>

Blanks32 == [i \in 1..32 |-> " "]

\* what an entry leaves: whether it was classified, transport_id, the
\* transport summary of its line and what the stack held
Outcome(r, text, stack) ==
    [ret |-> r.ret, transport_id |-> r.transport_id, text |-> text,
     stack |-> stack]

\* one_shost_entry() up to the line it prints
HostLine(e, opts, id, stack) ==
    IF opts.classic \/ ~opts.transport_info
    THEN [ret |-> FALSE, transport_id |-> id, text |-> <<>>,
          stack |-> stack]
    ELSE \* transport_init(devname, olen - q, o + q), then "%s\n" of o
         CHOOSE v \in {Outcome(r, r.b, stack) :
                         r \in {transport_init(e.name, e.tree, SummaryLen,
                                               FALSE, id, <<>>, stack)}} :
             TRUE

\* one_sdev_entry() up to the line it prints; b is what value[] holds
\* before transport_tport() and prior what its local hctl holds
SdevLine(e, opts, id, stack, b, prior) ==
    IF opts.classic \/ ~opts.transport_info
    THEN [ret |-> FALSE, transport_id |-> id, text |-> <<>>,
          stack |-> stack]
    ELSE CHOOSE v \in {Outcome(r, IF r.ret THEN Summary30(r.b)
                                  ELSE Blanks32, stack) :
                         r \in {transport_tport(e, LMAX_NAME, FALSE, id, b,
                                                prior)}} : TRUE

\* k < num, then transport_id = TRANSPORT_UNKNOWN
ListFor ==
    /\ call.pc = "for"
    /\ call.kk < Len(call.entries)
    /\ call' = [call EXCEPT !.pc = "entry",
                            !.transport_id = EntryStart(call.transport_id)]
    /\ UNCHANGED <<mainvars, codec, cmp>>

\* the entry after the line: with --long or --list the longer entry
\* follows, else the next pass of the loop
AfterLine(opts, list) ==
    IF opts.long_opt > 0 /\ ~(opts.classic /\ list = "hosts")
    THEN "longer" ELSE "for"

ListEntry ==
    /\ call.pc = "entry"
    /\ \E stack \in StackTexts, b \in {<<>>, <<"0">>}, prior \in StackTuples :
         \E v \in {IF call.list = "hosts"
                   THEN HostLine(call.entries[call.kk + 1], call.opts,
                                 call.transport_id, stack)
                   ELSE SdevLine(call.entries[call.kk + 1], call.opts,
                                 call.transport_id, stack, b, prior)} :
           call' = [call EXCEPT
                       !.pc = AfterLine(call.opts, call.list),
                       !.transport_id = v.transport_id,
                       !.done = Append(call.done, v),
                       !.lines = <<>>,
                       !.kk = IF AfterLine(call.opts, call.list) = "for"
                              THEN call.kk + 1 ELSE call.kk]
    /\ UNCHANGED <<mainvars, codec, cmp>>

\* longer_sh_entry() and longer_sdev_entry(): with --transport the switch
\* on transport_id, else the attributes of the entry
Longer(list, opts, id) ==
    IF ~opts.transport_info THEN <<"attributes">>
    ELSE IF list = "hosts" THEN transport_init_longer(id)
    ELSE transport_tport_longer(id)

ListLonger ==
    /\ call.pc = "longer"
    /\ call' = [call EXCEPT
                   !.pc = "for",
                   !.lines = Longer(call.list, call.opts, call.transport_id),
                   !.kk = call.kk + 1]
    /\ UNCHANGED <<mainvars, codec, cmp>>

ListReturn ==
    /\ call.pc = "for"
    /\ call.kk >= Len(call.entries)
    /\ call' = [call EXCEPT !.pc = "list_done"]
    /\ UNCHANGED <<mainvars, codec, cmp>>

ListNext == ListFor \/ ListEntry \/ ListLonger \/ ListReturn

SpecListing == ListInit /\ [][ListNext]_vars

-----------------------------------------------------------------------------
(* C24: transport_id at the start of each entry *)

\* what the entry at position i leaves when nothing was listed before it
Alone(i) ==
    IF call.list = "hosts"
    THEN HostLine(call.entries[i], call.opts, TRANSPORT_UNKNOWN,
                  call.done[i].stack)
    ELSE SdevLine(call.entries[i], call.opts, TRANSPORT_UNKNOWN,
                  call.done[i].stack, <<>>, invalidate_hctl)

Classifying == ~call.opts.classic /\ call.opts.transport_info

\* the entry at position i is a plain FC one: a device h:c:t:l or a host
\* with an fc_host directory whose symbolic_name, if any, has no " over ",
\* with port_name and port_id, and without SAS or SPI host directory
PlainFc(i) ==
    \E t \in {IF call.list = "hosts" THEN call.entries[i].tree
              ELSE call.entries[i]} :
        /\ t.fc_host /\ ~t.spi_host
        /\ call.list = "devices" =>
               ~t.sas_host /\ parse_colon_list(t.name, invalidate_hctl).ok
        /\ ~(t.symbolic_name.ok /\ Contains(t.symbolic_name.value, Over))
        /\ t.port_name.ok /\ t.port_id.ok

\* C24: in every listing run transport_id is TRANSPORT_UNKNOWN when the
\* classification of an entry starts, so what every entry leaves (whether
\* it was classified, its transport kind and its summary text) is what it
\* leaves when it is listed alone; a plain FC host or device listed after
\* an FCoE one is classified FC with a summary that starts with "fc:".
C24_UnknownAtStart ==
    /\ call.pc = "entry" => call.transport_id = TRANSPORT_UNKNOWN
    /\ \A i \in 1..Len(call.done) : call.done[i] = Alone(i)
    /\ (call.pc = "list_done" /\ Classifying
            /\ call.done[1].transport_id = TRANSPORT_FCOE /\ PlainFc(2)) =>
           /\ call.done[2].ret
           /\ call.done[2].transport_id = TRANSPORT_FC
           /\ HasPrefix(call.done[2].text, FcText)

\* a plain FC device was listed after an FCoE device and came out as FC
C24_Witness ==
    /\ call.pc = "list_done"
    /\ call.list = "devices"
    /\ Classifying
    /\ call.done[1].ret /\ call.done[1].transport_id = TRANSPORT_FCOE
    /\ PlainFc(2)
    /\ call.done[2].transport_id = TRANSPORT_FC
    /\ HasPrefix(call.done[2].text, FcText \o PortName.value)

-----------------------------------------------------------------------------
(* C25: an FC host without port_name and its longer entry *)

\* the host being listed has an fc_host directory without port_name (and
\* no SPI host directory, which is probed first), and transport_init()
\* has returned false for it
FcHostNoPortName ==
    /\ call.list = "hosts"
    /\ Classifying
    /\ call.kk < Len(call.entries)
    /\ Len(call.done) = call.kk + 1
    /\ call.entries[call.kk + 1].tree.fc_host
    /\ ~call.entries[call.kk + 1].tree.spi_host
    /\ ~call.entries[call.kk + 1].tree.port_name.ok
    /\ ~call.done[call.kk + 1].ret

\* C25: when transport_init returns false for a host whose fc_host
\* directory exists but lacks port_name, transport_id is left as
\* TRANSPORT_FC or TRANSPORT_FCOE, and transport_init_longer, called
\* afterwards for the same host, takes the FC/FCoE case of its switch with
\* that value.
C25_FcKept ==
    [][(call.pc = "longer" /\ FcHostNoPortName) =>
           /\ call.transport_id \in {TRANSPORT_FC, TRANSPORT_FCOE}
           /\ call.transport_id =
                  (IF call.entries[call.kk + 1].tree.symbolic_name.ok
                      /\ Contains(call.entries[call.kk + 1].tree
                                      .symbolic_name.value, Over)
                   THEN TRANSPORT_FCOE ELSE TRANSPORT_FC)
           /\ call'.lines = <<IF call.transport_id = TRANSPORT_FC
                              THEN "transport=fc:"
                              ELSE "transport=fcoe:">>]_vars

\* the longer entry of an FCoE host without port_name has printed
\* "transport=fcoe:"
C25_Witness ==
    /\ call.pc = "for"
    /\ call.list = "hosts"
    /\ Classifying
    /\ call.kk = 1
    /\ call.entries[1].tree.fc_host /\ ~call.entries[1].tree.spi_host
    /\ ~call.entries[1].tree.port_name.ok
    /\ ~call.done[1].ret
    /\ call.done[1].text = FcoeText
    /\ call.lines = <<"transport=fcoe:">>

-----------------------------------------------------------------------------
(* LUN harness of --lunhex twice: parse_colon_list() on a name,
   tuple2string() with sel_mask 0x2f on the result, and lun_word_flip()
   applied twice to a 64-bit value *)

\* 64-bit values: every choice of 0, 1 and 0xffff for the four 16-bit
\* words, and two values of four different words
FlipWords == {0, 1, 65535}

FlipValues ==
    {<<a, b, c, d>> : a \in FlipWords, b \in FlipWords, c \in FlipWords,
                      d \in FlipWords}
    \cup {<<0, 1, 256, 65535>>, <<4660, 22136, 39612, 57072>>}

\* names of SCSI devices: LUNs of one, two and four words
\* (0x0001000200030004 is 281483566841860), the largest LUN, one that does
\* not fit 64 bits, a negative one, hosts 2 and 0x7fff, and names that do
\* not parse
FlipLuns ==
    {<<"0">>, <<"2", "5", "8">>, <<"6", "5", "5", "3", "6">>,
     <<"2", "8", "1", "4", "8", "3", "5", "6", "6", "8", "4", "1", "8",
       "6", "0">>, Fmt_u64(UINT64_LAST), TextTwo64, <<"-", "2">>}

FlipNames ==
    {h \o <<":", "0", ":", "1", ":">> \o l :
        h \in {<<"2">>, Fmt_d(NVME_HOST_NUM)}, l \in FlipLuns}
    \cup {<<"0", ":", "0", ":", "1">>, <<"0", ":", "0", ":", "1", ":", "x">>}

FlipInit ==
    /\ MainIdle
    /\ codec = [pc |-> "idle"]
    /\ cmp = [pc |-> "idle"]
    /\ \E s \in FlipNames, x \in FlipValues, prior \in StackTuples :
           call = [pc |-> "parse", s |-> s, prior |-> prior,
                   p |-> [ok |-> FALSE, v |-> prior], str |-> <<>>,
                   x |-> x, y |-> x, z |-> x]

\* one_sdev_entry(): op->lunhex && parse_colon_list(devname, &hctl)
FlipParse ==
    /\ call.pc = "parse"
    /\ \E r \in {parse_colon_list(call.s, call.prior)} :
           call' = [call EXCEPT !.pc = IF r.ok THEN "render" ELSE "flip",
                                !.p = r]
    /\ UNCHANGED <<mainvars, codec, cmp>>

\* sel_mask = 0xf | 0x20, then tuple2string(&hctl, sel_mask, elen, e)
FlipRender ==
    /\ call.pc = "render"
    /\ call' = [call EXCEPT !.pc = "flip",
                            !.str = tuple2string(call.p.v, 47, ELEN)]
    /\ UNCHANGED <<mainvars, codec, cmp>>

\* y = lun_word_flip(x)
FlipWord ==
    /\ call.pc = "flip"
    /\ call' = [call EXCEPT !.pc = "flip_back", !.y = lun_word_flip(call.x)]
    /\ UNCHANGED <<mainvars, codec, cmp>>

\* z = lun_word_flip(y)
FlipBack ==
    /\ call.pc = "flip_back"
    /\ call' = [call EXCEPT !.pc = "flip_done", !.z = lun_word_flip(call.y)]
    /\ UNCHANGED <<mainvars, codec, cmp>>

FlipNext == FlipParse \/ FlipRender \/ FlipWord \/ FlipBack

SpecFlip == FlipInit /\ [][FlipNext]_vars

-----------------------------------------------------------------------------
(* C26: lun_arr, lun_word_flip() and the 16 hex digits of --lunhex twice *)

\* 8 bytes read as a big-endian 64-bit value
Be64(arr) ==
    <<(arr[1] * 256) + arr[2], (arr[3] * 256) + arr[4],
      (arr[5] * 256) + arr[6], (arr[7] * 256) + arr[8]>>

\* the bytes of arr as two hex digits each, in order
RECURSIVE HexOfBytes(_, _)
HexOfBytes(arr, i) ==
    IF i > 8 THEN <<>> ELSE Hex2(arr[i]) \o HexOfBytes(arr, i + 1)

Parsed == call.pc \in {"render", "flip", "flip_back",
        "flip_done"} /\ call.p.ok

Rendered == call.pc \in {"flip", "flip_back", "flip_done"} /\ call.p.ok

\* the text ends with "0x" and the 16 hex digits of the bytes of lun_arr
EndsWithLunArr ==
    /\ Len(call.str) >= 18
    /\ From(call.str, Len(call.str) - 17)
           = <<"0", "x">> \o HexOfBytes(call.p.v.lun_arr, 1)

\* C26 as stated: after a successful parse of a SCSI "h:c:t:l" name the 8
\* bytes of lun_arr, read as a big-endian 64-bit value, are
\* lun_word_flip(l), the 16 hex digits printed with --lunhex twice are the
\* bytes of lun_arr in order, and lun_word_flip(lun_word_flip(x)) = x.
C26_LunArr_Original ==
    /\ Parsed => Be64(call.p.v.lun_arr) = lun_word_flip(call.p.v.l)
    /\ Rendered => EndsWithLunArr
    /\ call.pc = "flip_done" => call.z = call.x

\* C26 amended: the 16 hex digits are printed, and are the bytes of
\* lun_arr in order, whenever the parsed host is not 0x7fff, for which
\* tuple2string prints the 8 hex digits of the low half of l.
C26_LunArr ==
    /\ Parsed => Be64(call.p.v.lun_arr) = lun_word_flip(call.p.v.l)
    /\ (Rendered /\ call.p.v.h # NVME_HOST_NUM) => EndsWithLunArr
    /\ (Rendered /\ call.p.v.h = NVME_HOST_NUM) =>
           From(call.str, Len(call.str) - 9)
               = <<"0", "x">> \o Hex4(call.p.v.l[3]) \o Hex4(call.p.v.l[4])
    /\ call.pc = "flip_done" => call.z = call.x

\* "2:0:1:281483566841860" was parsed and printed as
\* 2:0:1:0x0004000300020001, and a value of four different words was
\* flipped twice
C26_Witness ==
    /\ call.pc = "flip_done"
    /\ call.p.ok
    /\ call.p.v.h = 2
    /\ call.p.v.l = <<1, 2, 3, 4>>
    /\ call.p.v.lun_arr = <<0, 4, 0, 3, 0, 2, 0, 1>>
    /\ call.str = <<"2", ":", "0", ":", "1", ":", "0", "x", "0", "0", "0",
        "4", "0", "0", "0", "3", "0", "0", "0", "2", "0", "0", "0", "1">>
    /\ call.x = <<0, 1, 256, 65535>>
    /\ call.y = <<65535, 256, 1, 0>>
    /\ call.z = call.x

-----------------------------------------------------------------------------
(* size2string(): a size in bytes with a unit *)

STRING_UNITS_10 == 0

STRING_UNITS_2 == 1

\* do_div_rem(np, base): *np / base left in *np, and the returned
\* *np % base
do_div_rem(np, base) ==
    [np  |-> <<np[1] \div base,
               (((np[1] % base) * W) + np[2]) \div base,
               (((((np[1] % base) * W) + np[2]) % base) * W + np[3])
                   \div base,
               (((((((np[1] % base) * W) + np[2]) % base) * W + np[3])
                     % base) * W + np[4]) \div base>>,
     res |-> (((((((np[1] % base) * W) + np[2]) % base) * W + np[3])
                 % base) * W + np[4]) % base]

divisor(units) == IF units = STRING_UNITS_10 THEN 1000 ELSE 1024

units_10 == <<<<"B">>, <<"k", "B">>, <<"M", "B">>, <<"G", "B">>, <<"T",
        "B">>, <<"P", "B">>, <<"E", "B">>, <<"Z", "B">>, <<"Y", "B">>>>

units_2 == <<<<"B">>, <<"K", "i", "B">>, <<"M", "i", "B">>, <<"G", "i",
        "B">>, <<"T", "i", "B">>, <<"P", "i", "B">>, <<"E", "i", "B">>,
        <<"Z", "i", "B">>, <<"Y", "i", "B">>>>

units_str(units) == IF units = STRING_UNITS_10 THEN units_10 ELSE units_2

\* the while loop: size is divided while it is at least the divisor and
\* units_str[units][i] is not NULL
RECURSIVE SizeWhile(_, _, _, _)
SizeWhile(size, units, i, remainder) ==
    IF ~U64Lt(size, U64OfNat(divisor(units))) /\ i < 9
    THEN \* remainder = do_div_rem(&size, divisor[units]); i++
         CHOOSE r \in {SizeWhile(d.np, units, i + 1, d.res) :
                          d \in {do_div_rem(size, divisor(units))}} : TRUE
    ELSE [size |-> size, i |-> i, remainder |-> remainder]

\* a loop that stops at two figures
RECURSIVE SfCap_two_figures(_, _)
SfCap_two_figures(sf_cap, jx) ==
    IF sf_cap * 10 < 100 THEN SfCap_two_figures(sf_cap * 10, jx + 1) ELSE jx

\* for (j = 0; (sf_cap * 10) < 1000; ++j) sf_cap *= 10: the j it ends with
RECURSIVE SfCap(_, _)
SfCap(sf_cap, jx) ==
    IF sf_cap * 10 < 1000 THEN SfCap(sf_cap * 10, jx + 1) ELSE jx

\* printf("%03u", n)
Fmt_03u(n) ==
    IF n < 10 THEN <<"0", "0">> \o Fmt_d(n)
    ELSE IF n < 100 THEN <<"0">> \o Fmt_d(n)
    ELSE Fmt_d(n)

\* tmp[] for jx > 0: ".%03u" of remainder * 1000 / divisor, cut behind jx
\* digits
SizeTmp(remainder, units, jx) ==
    IF jx = 0 THEN <<>>
    ELSE SubSeq(Truncated(
                    <<".">> \o Fmt_03u(IntOfU64(
                        do_div_rem(U64OfNat(remainder * 1000),
                                   divisor(units)).np)),
                    8),
                1, jx + 1)

\* the text once the while loop has left w
SizeText(w, units, len) ==
    Truncated(Fmt_d(IntOfU64(w.size))
                  \o SizeTmp(w.remainder, units, SfCap(IntOfU64(w.size), 0))
                  \o units_str(units)[w.i + 1],
              len)

\* size2string(size, units, buf, len): the text left in buf; the function
\* returns true
size2string(size, units, len) ==
    IF ~U64Lt(size, U64OfNat(divisor(units)))
    THEN SizeText(SizeWhile(size, units, 0, 0), units, len)
    ELSE Truncated(Fmt_d(IntOfU64(size)) \o units_str(units)[1], len)

-----------------------------------------------------------------------------
(* size2string() harness: one call on a size and a unit system *)

\* the largest power of the divisor the sizes are made of
MaxPower == 6

\* v * base^e with the digit d added after each step, and whether 64 bits
\* held it
RECURSIVE Scaled(_, _, _, _)
Scaled(v, base, e, d) ==
    IF e = 0 THEN v
    ELSE CHOOSE r \in {[v |-> s.v, ovf |-> v.ovf \/ s.ovf] :
                          s \in {U64MulAdd(Scaled(v, base, e - 1, d).v,
                                           base, d)}} : TRUE

\* sizes: 1 to 3 leading figures, and 1000 to 1023, in front of up to
\* MaxPower groups of 0, 1, 994 or the largest digit of the base; and the
\* largest size
SizeValues ==
    {s.v : s \in {z \in {Scaled([v |-> U64OfNat(m), ovf |-> FALSE], base,
                                 e, d) :
                            m \in {0, 1, 9, 10, 99, 100, 512, 999, 1000,
        1023},
                            base \in {1000, 1024}, e \in 0..MaxPower,
                            d \in {0, 1, 994, 999, 1023}} : ~z.ovf}}
    \cup {UINT64_LAST}

SizeInit ==
    /\ MainIdle
    /\ codec = [pc |-> "idle"]
    /\ cmp = [pc |-> "idle"]
    /\ \E size \in SizeValues, units \in {STRING_UNITS_10, STRING_UNITS_2} :
           call = [pc |-> "size2string", size |-> size, units |-> units,
                   buf |-> <<>>]

\* size2string(blk512s, unit_val, value, vlen)
SizeCall ==
    /\ call.pc = "size2string"
    /\ call' = [call EXCEPT !.pc = "size_done",
                            !.buf = size2string(call.size, call.units,
                                                LMAX_NAME)]
    /\ UNCHANGED <<mainvars, codec, cmp>>

SizeNext == SizeCall

SpecSize == SizeInit /\ [][SizeNext]_vars

-----------------------------------------------------------------------------
(* C27: the figures of size2string() *)

\* the number in front of the unit: the digits and the point
RECURSIVE NumberLen(_)
NumberLen(s) ==
    IF s # <<>> /\ (IsDigit(Head(s)) \/ Head(s) = ".")
    THEN 1 + NumberLen(Tail(s)) ELSE 0

SizeNumber == SubSeq(call.buf, 1, NumberLen(call.buf))

SizeUnit == From(call.buf, NumberLen(call.buf) + 1)

\* the number of digits of the number: its figures, as it never starts
\* with a 0 unless it is "0"
Figures == Cardinality({i \in 1..Len(SizeNumber) : IsDigit(SizeNumber[i])})

SizeDone == call.pc = "size_done"

AtLeastDivisor == ~U64Lt(call.size, U64OfNat(divisor(call.units)))

\* the unit is one of the unit system, and not "B"
ScaledUnit ==
    \E i \in 2..9 : SizeUnit = units_str(call.units)[i]

\* what is left of the size when the while loop ends
Leading == IntOfU64(SizeWhile(call.size, call.units, 0, 0).size)

====
